---- MODULE Spec2Model ----
(***************************************************************************)
(* Domain provisioning of the FreeResend relay: the SES adapter            *)
(* (lib/ses.ts), the DigitalOcean DNS adapter (lib/digitalocean.ts) and    *)
(* the orchestrator (lib/domains.ts).                                      *)
(*                                                                         *)
(* Strings are sequences of atoms.  A domain name is a sequence of single  *)
(* characters; fixed fragments of record names and messages               *)
(* ("_amazonses", "Failed to add domain: ") are single atoms that hold no  *)
(* "." and no " ".                                                         *)
(***************************************************************************)
EXTENDS Integers, Sequences, FiniteSets, TLC

VARIABLES
    domains,      \* rows of table domains
    doToken,      \* DO_API_TOKEN is configured
    doZones,      \* zones the registrar manages
    doRecords,    \* registrar records of each zone, in creation order
    ret,          \* outcome of the call in progress, Idle between calls
    calls,        \* adapter calls and writes made by the call in progress
    req,          \* the call in progress: operation and arguments
    workers,      \* concurrent invocations (SpecRace, SpecAddRace)
    apiKeys,      \* rows of table api_keys
    emailLogs     \* rows of table email_logs, in insertion order

vars ==
    <<domains, doToken, doZones, doRecords, ret, calls, req, workers,
      apiKeys, emailLogs>>

\* The tables the domain orchestrator does not touch.
MailFrame == UNCHANGED <<apiKeys, emailLogs>>
NoMail == apiKeys = {} /\ emailLogs = <<>>

(***************************************************************************)
(* Bounds                                                                  *)
(***************************************************************************)
MaxDoRecords == 5      \* records the registrar accepts per zone

(***************************************************************************)
(* String helpers                                                          *)
(***************************************************************************)
NULL == <<"<null>">>

StartsWith(s, pre) == Len(s) >= Len(pre) /\ SubSeq(s, 1, Len(pre)) = pre

EndsWith(s, suf) ==
    Len(s) >= Len(suf) /\ SubSeq(s, Len(s) - Len(suf) + 1, Len(s)) = suf

Includes(s, sub) ==
    \E i \in 0..(Len(s) - Len(sub)) : SubSeq(s, i + 1, i + Len(sub)) = sub

IndexOf(s, sub) ==
    CHOOSE i \in 0..(Len(s) - Len(sub)) :
        /\ SubSeq(s, i + 1, i + Len(sub)) = sub
        /\ \A j \in 0..(i - 1) : SubSeq(s, j + 1, j + Len(sub)) # sub

\* String.prototype.replace with a string pattern: the first occurrence only.
ReplaceFirst(s, sub, rep) ==
    IF ~Includes(s, sub) THEN s
    ELSE LET i == IndexOf(s, sub)
         IN  SubSeq(s, 1, i) \o rep \o SubSeq(s, i + Len(sub) + 1, Len(s))

RECURSIVE Split(_, _)
Split(s, sep) ==
    IF ~Includes(s, <<sep>>) THEN <<s>>
    ELSE LET i == IndexOf(s, <<sep>>)
         IN  <<SubSeq(s, 1, i)>> \o Split(SubSeq(s, i + 2, Len(s)), sep)

RECURSIVE Join(_, _)
Join(parts, sep) ==
    IF Len(parts) = 0 THEN <<>>
    ELSE IF Len(parts) = 1 THEN parts[1]
    ELSE parts[1] \o <<sep>> \o Join(Tail(parts), sep)

DigitValue(c) ==
    CASE c = "0" -> 0 [] c = "1" -> 1 [] c = "2" -> 2 [] c = "3" -> 3
      [] c = "4" -> 4 [] c = "5" -> 5 [] c = "6" -> 6 [] c = "7" -> 7
      [] c = "8" -> 8 [] c = "9" -> 9

RECURSIVE ParseInt(_)
ParseInt(s) ==
    IF Len(s) = 0 THEN 0
    ELSE ParseInt(SubSeq(s, 1, Len(s) - 1)) * 10 + DigitValue(s[Len(s)])

(***************************************************************************)
(* Values of the model                                                     *)
(***************************************************************************)
Alnum == {"a", "b"}

DomA == <<"a", ".", "b">>
DomB == <<"b">>
BadHyphen == <<"-", "a">>
BadDot == <<"a", ".">>

\* Names submitted to addDomain; DomB is a zone of the registrar only.
DomainNames == {DomA, BadHyphen, BadDot}
ZoneNames == {DomA, DomB}

Users == {"u1", "u2"}
Tokens == {<<"t", "1">>, <<"t", "2">>}
DkimLists == {<<>>, <<<<"k", "1">>>>}

MaxLabelMiddle == 61
MaxDomainLen == 253

(***************************************************************************)
(* lib/domains.ts: isValidDomain                                           *)
(***************************************************************************)
IsLabel(l) ==
    /\ Len(l) >= 1
    /\ l[1] \in Alnum
    /\ Len(l) >= 2 =>
         /\ l[Len(l)] \in Alnum
         /\ Len(l) - 2 <= MaxLabelMiddle
         /\ \A i \in 2..(Len(l) - 1) : l[i] \in Alnum \cup {"-"}

isValidDomain(domain) ==
    /\ \A i \in 1..Len(Split(domain, ".")) : IsLabel(Split(domain, ".")[i])
    /\ Len(domain) <= MaxDomainLen

ValidNames == {d \in DomainNames : isValidDomain(d)}

(***************************************************************************)
(* lib/ses.ts: generateDNSRecords                                          *)
(***************************************************************************)
DkimRecord(domain, token) ==
    [type |-> "CNAME",
     name |-> token \o <<".", "_domainkey", ".">> \o domain,
     value |-> token \o <<".", "dkim", ".", "amazonses", ".", "com", ".">>,
     ttl |-> 300,
     description |-> <<"DKIM Record (">>
                     \o SubSeq(token, 1, IF Len(token) < 8 THEN Len(token) ELSE 8)
                     \o <<"...)">>]

\* The four records every domain gets (lines 254-283).
fixedDNSRecords(domain, verificationToken) ==
    << [type |-> "TXT",
        name |-> <<"_amazonses", ".">> \o domain,
        value |-> verificationToken,
        ttl |-> 300,
        description |-> <<"SES Domain Verification">>],
       [type |-> "MX",
        name |-> domain,
        value |-> <<"1", "0", " ", "inbound-smtp", ".", "us-east-1", ".",
                    "amazonaws", ".", "com", ".">>,
        ttl |-> 300,
        description |-> <<"SES Inbound Email">>],
       [type |-> "TXT",
        name |-> domain,
        value |-> <<"v=spf1", " ", "include:amazonses", ".", "com", " ", "~all">>,
        ttl |-> 300,
        description |-> <<"SPF Record for SES">>],
       [type |-> "TXT",
        name |-> <<"_dmarc", ".">> \o domain,
        value |-> <<"v=DMARC1;", " ", "p=quarantine;", " ", "rua=mailto:dmarc@">>
                  \o domain,
        ttl |-> 300,
        description |-> <<"DMARC Policy">>] >>

\* The contrasting behaviour, a planner without the forEach of lines 286-294.
generateDNSRecordsFixedOnly(domain, verificationToken, dkimTokens) ==
    fixedDNSRecords(domain, verificationToken)

generateDNSRecords(domain, verificationToken, dkimTokens) ==
    fixedDNSRecords(domain, verificationToken)
    \o [i \in 1..Len(dkimTokens) |-> DkimRecord(domain, dkimTokens[i])]

(***************************************************************************)
(* lib/digitalocean.ts: createDNSRecord, setupDomainDNS                    *)
(***************************************************************************)
\* The registrar's root-relative name of a planned record.
RecordName(domain, record) ==
    IF record.name = domain THEN <<"@">>
    ELSE ReplaceFirst(record.name, <<".">> \o domain, <<>>)

\* The MX data the code compares with: the planned value, priority included.
ComparedValue(record) == record.value

\* A hostname with the trailing dot the registrar requires (lines 157-160).
WithTrailingDot(hostname) ==
    IF EndsWith(hostname, <<".">>) THEN hostname ELSE hostname \o <<".">>

\* The payload createDNSRecord posts: an MX value "priority hostname" is
\* split into the priority and the hostname (lines 153-172).
Payload(domain, record) ==
    LET parts == Split(record.value, " ")
        mx == record.type = "MX" /\ Len(parts) >= 2
    IN  [type |-> record.type,
         name |-> RecordName(domain, record),
         data |-> IF mx THEN WithTrailingDot(Join(Tail(parts), " "))
                  ELSE record.value,
         ttl |-> record.ttl,
         priority |-> IF mx THEN <<ParseInt(parts[1])>> ELSE <<>>]

\* The registrar stores the payload as posted and gives it the next id.
Stored(existing, payload) ==
    [id |-> Len(existing) + 1, type |-> payload.type, name |-> payload.name,
     data |-> payload.data, ttl |-> payload.ttl, priority |-> payload.priority]

recordExists(domain, record, existingRecords) ==
    IF record.type = "CNAME"
    THEN \E i \in 1..Len(existingRecords) :
             existingRecords[i].name = RecordName(domain, record)
    ELSE \E i \in 1..Len(existingRecords) :
             /\ existingRecords[i].type = record.type
             /\ existingRecords[i].name = RecordName(domain, record)
             /\ existingRecords[i].data = ComparedValue(record)

\* convertDORecordToDNSRecord of lib/domains.ts
convertDORecordToDNSRecord(doRecord) ==
    [type |-> doRecord.type, name |-> doRecord.name,
     value |-> doRecord.data, ttl |-> doRecord.ttl]

\* An adapter call in the log of a call: which one, and whether it succeeded.
Call(name, ok) == [call |-> name, ok |-> ok]
CallV(name, answer) == [call |-> name, ok |-> answer.ok, val |-> answer.val]
CallE(name, answer) == [call |-> name, ok |-> answer.ok, err |-> answer.err]

\* A createDNSRecord call for planned record i in the log of a call.
CreateCall(i, ok) == [call |-> "do:createDNSRecord", ok |-> ok, i |-> i]

\* The contrasting behaviour, a POST that takes the place of the zone's
\* first record.
PostedOverFirst(acc, st, i) ==
    [created |-> Append(acc.created, st),
     records |-> IF acc.records = <<>> THEN <<st>>
                 ELSE [acc.records EXCEPT ![1] = st],
     calls |-> Append(acc.calls, CreateCall(i, TRUE))]

\* createdRecords.push(createdRecord) after a POST that succeeded.
Posted(acc, st, i) ==
    [created |-> Append(acc.created, st),
     records |-> Append(acc.records, st),
     calls |-> Append(acc.calls, CreateCall(i, TRUE))]

\* One iteration of the for loop of setupDomainDNS on planned record i: a
\* record found in the listing is left alone (lines 308-337), a POST that
\* fails is caught and only logged (lines 341-344), a POST that succeeds
\* adds the stored record to createdRecords (lines 304-307).
reconcileOne(domain, record, i, existingRecords, e, acc) ==
    IF recordExists(domain, record, existingRecords) THEN acc
    ELSE IF i \in e.createFail \/ Len(acc.records) >= e.quota
    THEN [acc EXCEPT !.calls = Append(@, CreateCall(i, FALSE))]
    ELSE Posted(acc, Stored(acc.records, Payload(domain, record)), i)

RECURSIVE reconcileLoopAbort(_, _, _, _, _, _)
\* The contrasting behaviour, a loop that ends at the first POST that fails.
reconcileLoopAbort(domain, dnsRecords, i, existingRecords, e, acc) ==
    IF i > Len(dnsRecords) \/ ~acc.calls[Len(acc.calls)].ok THEN acc
    ELSE reconcileLoopAbort(domain, dnsRecords, i + 1, existingRecords, e,
             reconcileOne(domain, dnsRecords[i], i, existingRecords, e, acc))

RECURSIVE reconcileLoop(_, _, _, _, _, _)
\* The for loop of setupDomainDNS.  existingRecords is the listing taken once
\* before the loop; acc carries the created records, the registrar's
\* records and the calls made so far.
reconcileLoop(domain, dnsRecords, i, existingRecords, e, acc) ==
    IF i > Len(dnsRecords) THEN acc
    ELSE reconcileLoop(domain, dnsRecords, i + 1, existingRecords, e,
             reconcileOne(domain, dnsRecords[i], i, existingRecords, e, acc))

\* return createdRecords (line 347)
Returned(acc) ==
    [threw |-> FALSE, message |-> <<>>, created |-> acc.created,
     records |-> acc.records, calls |-> acc.calls]

\* setupDomainDNS(domain, dnsRecords) against registrar reg under the
\* registrar behaviour e: [threw, message, created, records, calls].
setupDomainDNS(reg, domain, dnsRecords, e) ==
    LET same == [threw |-> FALSE, message |-> <<>>, created |-> <<>>,
                 records |-> reg.records, calls |-> <<>>]
    IN  IF ~reg.token THEN same
        ELSE IF e.zones2 = "fail"
        THEN [same EXCEPT !.threw = TRUE,
                 !.message = <<"Failed to setup domain DNS: ",
                               "Failed to fetch domains: ">>,
                 !.calls = <<Call("do:getDomains", FALSE)>>]
        ELSE IF domain \notin reg.zones
        THEN [same EXCEPT !.threw = TRUE,
                 !.message = <<"Failed to setup domain DNS: ", "Domain ">>
                             \o domain
                             \o <<" not found in Digital Ocean. Please add it first.">>,
                 !.calls = <<Call("do:getDomains", TRUE)>>]
        ELSE IF e.records = "fail"
        THEN [same EXCEPT !.threw = TRUE,
                 !.message = <<"Failed to setup domain DNS: ",
                               "Failed to fetch domain records: ">>,
                 !.calls = <<Call("do:getDomains", TRUE),
                             Call("do:getDomainRecords", FALSE)>>]
        ELSE Returned(reconcileLoop(domain, dnsRecords, 1, reg.records, e,
                          [created |-> <<>>, records |-> reg.records,
                           calls |-> <<Call("do:getDomains", TRUE),
                                       Call("do:getDomainRecords", TRUE)>>]))

\* The contrasting behaviour, verifyDomainOwnership without the test of
\* DO_API_TOKEN.
verifyDomainOwnershipUnchecked(reg, domain, e) ==
    IF e.zones1 = "fail"
    THEN [val |-> FALSE, calls |-> <<Call("do:getDomains", FALSE)>>]
    ELSE [val |-> domain \in reg.zones, calls |-> <<Call("do:getDomains", TRUE)>>]

\* verifyDomainOwnership(domain): [val, calls]
verifyDomainOwnership(reg, domain, e) ==
    IF ~reg.token THEN [val |-> FALSE, calls |-> <<>>]
    ELSE IF e.zones1 = "fail"
    THEN [val |-> FALSE, calls |-> <<Call("do:getDomains", FALSE)>>]
    ELSE [val |-> domain \in reg.zones, calls |-> <<Call("do:getDomains", TRUE)>>]

(***************************************************************************)
(* Answers of the identity provider (SES).  An answer is a value or an     *)
(* error [name, message, http].                                            *)
(***************************************************************************)
Ok(v) == [ok |-> TRUE, val |-> v, err |-> [name |-> "", message |-> <<>>, http |-> 200]]
Err(e) == [ok |-> FALSE, val |-> NULL, err |-> e]

ErrDenied ==
    [name |-> "AccessDenied", message |-> <<"User is not authorized">>, http |-> 403]
ErrNotFound ==
    [name |-> "InvalidParameterValue",
     message |-> <<"Identity ", "does ", "not exist">>, http |-> 400]
ErrExists ==
    [name |-> "ConfigurationSetAlreadyExists",
     message |-> <<"Configuration set", " <name> ", "already exists">>, http |-> 400]

SesStatuses == {"Pending", "Success", "Failed", "TemporaryFailure", "NotStarted"}

VerifyAnswers == {Ok(t) : t \in Tokens} \cup {Err(ErrDenied)}
\* Tokens are opaque: the first verification of a domain answers the first.
FirstVerifyAnswers == {Ok(<<"t", "1">>), Err(ErrDenied)}
DkimAnswers == {Ok(l) : l \in DkimLists} \cup {Err(ErrDenied)}
ConfigSetAnswers == {Ok(NULL), Err(ErrExists), Err(ErrDenied)}
StatusAnswers == {Ok(st) : st \in SesStatuses} \cup {Err(ErrNotFound), Err(ErrDenied)}
\* verifyAndCompleteExistingDomain only logs the status it is answered.
ExistingStatusAnswers == {Ok("Pending"), Err(ErrNotFound), Err(ErrDenied)}

\* Behaviours of the registrar during one call: which listing fails, which
\* planned records (by position) fail to be created, and the number of
\* records per zone beyond which it rejects a creation.
DoAllOk ==
    [zones1 |-> "ok", zones2 |-> "ok", records |-> "ok", createFail |-> {},
     quota |-> MaxDoRecords]

DoAnswers ==
    {DoAllOk,
     [DoAllOk EXCEPT !.createFail = {2}],
     [DoAllOk EXCEPT !.zones1 = "fail"],
     [DoAllOk EXCEPT !.records = "fail"]}

(***************************************************************************)
(* lib/ses.ts: createConfigurationSet                                      *)
(***************************************************************************)
configSetName(domain) ==
    <<"freeresend-">> \o [i \in 1..Len(domain) |->
                             IF domain[i] = "." THEN "-" ELSE domain[i]]

isAlreadyExists(e) ==
    \/ e.name = "AlreadyExistsException"
    \/ e.name = "ConfigurationSetAlreadyExistsException"
    \/ Includes(e.message, <<"already exists">>)
    \/ Includes(e.message, <<"Configuration set">>)
    \/ e.http = 409

\* [threw, val, err]: the name, or the error rethrown.
createConfigurationSet(domain, answer) ==
    IF answer.ok \/ isAlreadyExists(answer.err)
    THEN [threw |-> FALSE, val |-> configSetName(domain), err |-> answer.err]
    ELSE [threw |-> TRUE, val |-> NULL, err |-> answer.err]

(***************************************************************************)
(* lib/domains.ts: persistence                                             *)
(***************************************************************************)
NoRow == [id |-> 0]

getDomainByName(rows, domainName) ==
    IF \E r \in rows : r.domain = domainName
    THEN CHOOSE r \in rows : r.domain = domainName
    ELSE NoRow

getDomainById(rows, domainId) ==
    IF \E r \in rows : r.id = domainId
    THEN CHOOSE r \in rows : r.id = domainId
    ELSE NoRow

\* gen_random_uuid(): an id no row has.
FreshId(rows) == CHOOSE i \in 1..(Cardinality(rows) + 1) : \A r \in rows : r.id # i

Idle == [kind |-> "idle"]
Thrown(op, message) == [kind |-> "throw", op |-> op, message |-> message]

(***************************************************************************)
(* lib/domains.ts: addDomain, new-domain path (lines 96-181)               *)
(* Every operator returns [ret, rows, records, calls]: the outcome, the    *)
(* table, the registrar's records of the domain's zone and the calls made. *)
(***************************************************************************)
Step(r, rows, records, cs) == [ret |-> r, rows |-> rows, records |-> records, calls |-> cs]

\* The registrar step of both paths, given the answer own of
\* verifyDomainOwnership and the result s of setupDomainDNS:
\* [created, instructions, records, calls].  setupDomainDNS is awaited only
\* when the zone is the account's.
registrarStep(reg, own, s, absentText, manualText, doneText) ==
    IF ~own.val
    THEN [created |-> <<>>, records |-> reg.records, calls |-> own.calls,
          instructions |-> <<absentText>>]
    ELSE IF s.threw
    THEN [created |-> <<>>, records |-> s.records, calls |-> own.calls \o s.calls,
          instructions |-> <<manualText>>]
    ELSE [created |-> [i \in 1..Len(s.created) |->
                          convertDORecordToDNSRecord(s.created[i])],
          records |-> s.records, calls |-> own.calls \o s.calls,
          instructions |-> <<doneText>>]

\* Step 5 of the new-domain path (lines 126-144)
registrarStepNew(reg, domainName, dnsRecords, e) ==
    registrarStep(reg, verifyDomainOwnership(reg, domainName, e),
        setupDomainDNS(reg, domainName, dnsRecords, e),
        "Domain not found in Digital Ocean. Please create the DNS records manually or add the domain to your Digital Ocean account first.",
        "DNS records need to be created manually. Please add the following records to your DNS provider:",
        "DNS records have been automatically created in Digital Ocean.")

\* The contrasting behaviour, a verifyDomain wrapped in a try of its own.
verifyFatalNever(answer) == FALSE

\* verifyDomain is awaited outside any inner try (line 98): its error
\* reaches the outer catch (lines 177-180).
verifyFatal(answer) == ~answer.ok

\* createConfigurationSet is awaited outside any inner try (line 117).
configSetFatal(cs) == cs.threw

\* The contrasting behaviour, a domains table without the constraint.
uniqueViolationNever(rows, domainName) == FALSE

\* domain VARCHAR(255) UNIQUE NOT NULL: an INSERT of a name some row holds
\* is rejected.
uniqueViolation(rows, domainName) == \E r \in rows : r.domain = domainName

\* The calls of the new-domain path up to createConfigurationSet.
newDomainCalls(env, cs) ==
    <<Call("ses:verifyDomain", env.verify.ok),
      Call("ses:enableDomainDkim", env.dkimEnable.ok),
      Call("ses:createConfigurationSet", ~cs.threw)>>

\* INSERT INTO domains ... RETURNING * and the outcome (lines 146-176),
\* given the configuration set cs, the planned records and the result d of
\* the registrar step.
insertDomain(rows, userId, domainName, env, cs, dnsRecords, d, row) ==
    IF uniqueViolation(rows, domainName)
    THEN \* the INSERT is rejected and the outer catch rethrows
         Step(Thrown("addDomain",
                     <<"Failed to add domain: ", "duplicate key value">>),
              rows, d.records,
              newDomainCalls(env, cs) \o d.calls \o <<Call("db:insert", FALSE)>>)
    ELSE Step([kind |-> "return", op |-> "addDomain", domain |-> row,
               dnsRecords |-> dnsRecords, sesConfigurationSet |-> cs.val,
               digitalOceanRecords |-> d.created,
               setupInstructions |-> d.instructions],
              rows \cup {row}, d.records,
              newDomainCalls(env, cs) \o d.calls \o <<Call("db:insert", TRUE)>>)

\* Lines 117-176, given the configuration set cs and the planned records.
addConfiguredDomain(rows, reg, userId, domainName, env, cs, dnsRecords) ==
    IF configSetFatal(cs)
    THEN Step(Thrown("addDomain",
                     <<"Failed to add domain: ">> \o cs.err.message),
              rows, reg.records, newDomainCalls(env, cs))
    ELSE insertDomain(rows, userId, domainName, env, cs, dnsRecords,
             registrarStepNew(reg, domainName, dnsRecords, env.registrar),
             [id |-> FreshId(rows), user_id |-> userId, domain |-> domainName,
              status |-> "pending", ses_configuration_set |-> cs.val,
              dns_records |-> dnsRecords,
              verification_token |-> env.verify.val])

addNewDomain(rows, reg, userId, domainName, env) ==
    IF verifyFatal(env.verify)
    THEN Step(Thrown("addDomain",
                     <<"Failed to add domain: ">> \o env.verify.err.message),
              rows, reg.records, <<Call("ses:verifyDomain", env.verify.ok)>>)
    ELSE addConfiguredDomain(rows, reg, userId, domainName, env,
             createConfigurationSet(domainName, env.configSet),
             generateDNSRecords(domainName, env.verify.val,
                 IF env.dkimEnable.ok THEN env.dkimEnable.val ELSE <<>>))

(***************************************************************************)
(* lib/domains.ts: verifyAndCompleteExistingDomain (lines 183-357)         *)
(***************************************************************************)
\* The contrasting behaviour, a function without the ownership test.
ownershipDeniedNever(existingDomain, userId) == FALSE

\* The ownership test (lines 187-190).
ownershipDenied(existingDomain, userId) == existingDomain.user_id # userId

\* The contrasting behaviour, a catch that re-verifies on every error.
isNotFoundAlways(e) == TRUE

\* The status query failed with a not-found signal (lines 209-212).
isNotFound(e) ==
    \/ Includes(e.message, <<"not exist">>)
    \/ Includes(e.message, <<"not found">>)

\* The contrasting behaviour, an inner catch that rethrows what is not a
\* not-found error.
statusQueryFatalOnOther(answer) == ~answer.ok /\ ~isNotFound(answer.err)

\* The inner catch of the status query swallows every error (lines 206-232),
\* so none reaches the outer catch (lines 353-356).
statusQueryFatal(answer) == FALSE

\* Step 5 of the existing-domain path (lines 279-307)
registrarStepExisting(reg, domainName, dnsRecords, e) ==
    registrarStep(reg, verifyDomainOwnership(reg, domainName, e),
        setupDomainDNS(reg, domainName, dnsRecords, e),
        "Domain not found in Digital Ocean. Please add the domain to your Digital Ocean account or create DNS records manually.",
        "DNS records need to be updated manually in Digital Ocean.",
        "DNS records have been verified/updated in Digital Ocean.")

\* The calls of the existing-domain path up to the registrar step: the
\* status query, verifyDomain on a not-found signal, the token query,
\* enableDomainDkim when that query fails, createConfigurationSet when no
\* configuration set is recorded.
existingDomainCalls(existingDomain, env, cs) ==
    <<CallE("ses:getDomainVerificationStatus", env.status)>>
    \o (IF ~env.status.ok /\ isNotFound(env.status.err)
        THEN <<CallV("ses:verifyDomain", env.verify)>> ELSE <<>>)
    \o <<CallV("ses:getDomainDkimTokens", env.dkimGet)>>
    \o (IF ~env.dkimGet.ok
        THEN <<Call("ses:enableDomainDkim", env.dkimEnable.ok)>> ELSE <<>>)
    \o (IF existingDomain.ses_configuration_set \in {NULL, <<>>}
        THEN <<Call("ses:createConfigurationSet", ~cs.threw)>> ELSE <<>>)

\* The outcome returned by the existing-domain path (lines 334-352); f
\* carries updateFields, the planned records and the configuration set.
existingOutcome(row, f, d) ==
    [kind |-> "return", op |-> "addDomain", domain |-> row,
     dnsRecords |-> f.dnsRecords,
     sesConfigurationSet |-> f.configurationSet,
     digitalOceanRecords |-> d.created,
     setupInstructions |-> <<"Domain already exists.", " ">> \o d.instructions]

\* The contrasting behaviour, an UPDATE that leaves verification_token out.
updatedRowKeepToken(r, f) ==
    [r EXCEPT
        !.ses_configuration_set = IF f.csCreated THEN f.configurationSet ELSE @,
        !.dns_records = f.dnsRecords]

\* UPDATE domains SET <updateFields>, dns_records = ... on one row
\* (lines 311-319): only the fields put in updateFields are written.
updatedRow(r, f) ==
    [r EXCEPT
        !.verification_token = IF f.reverified THEN f.token ELSE @,
        !.ses_configuration_set = IF f.csCreated THEN f.configurationSet ELSE @,
        !.dns_records = f.dnsRecords]

\* Step 6, the partial update WHERE id = existingDomain.id (lines 309-343),
\* and the return: the row as the UPDATE returned it, or existingDomain when
\* nothing was to be updated or the UPDATE met no row.
updateExisting(rows, existingDomain, f, cs0, d) ==
    IF ~(f.reverified \/ f.csCreated)
    THEN Step(existingOutcome(existingDomain, f, d), rows, d.records,
              cs0 \o d.calls)
    ELSE IF getDomainById(rows, existingDomain.id) = NoRow
    THEN Step(existingOutcome(existingDomain, f, d), rows, d.records,
              cs0 \o d.calls \o <<Call("db:update", TRUE)>>)
    ELSE Step(existingOutcome(
                  updatedRow(getDomainById(rows, existingDomain.id), f), f, d),
              {IF r.id = existingDomain.id THEN updatedRow(r, f) ELSE r :
                  r \in rows},
              d.records,
              cs0 \o d.calls \o <<Call("db:update", TRUE)>>)

\* updateFields and configurationSet as steps 1 and 3 leave them
\* (lines 216-219, 255-270).
existingUpdateFields(existingDomain, reverified, token, cs, dnsRecords) ==
    [reverified |-> reverified,
     token |-> token,
     csCreated |-> existingDomain.ses_configuration_set \in {NULL, <<>>}
                   /\ ~cs.threw,
     configurationSet |->
         IF existingDomain.ses_configuration_set \in {NULL, <<>>} /\ ~cs.threw
         THEN cs.val ELSE existingDomain.ses_configuration_set,
     dnsRecords |-> dnsRecords]

\* Steps 4 to 6 (lines 272-352), given the verification token in force and
\* the signing tokens.
reconcileExisting(rows, reg, existingDomain, env, reverified, token, cs, dnsRecords) ==
    updateExisting(rows, existingDomain,
        existingUpdateFields(existingDomain, reverified, token, cs, dnsRecords),
        existingDomainCalls(existingDomain, env, cs),
        registrarStepExisting(reg, existingDomain.domain, dnsRecords,
                              env.registrar))

verifyAndCompleteExistingDomain(rows, reg, userId, existingDomain, env) ==
    LET \* 1. status query, re-verification on a not-found signal
        reverified ==
            ~env.status.ok /\ isNotFound(env.status.err) /\ env.verify.ok
        sesVerificationToken ==
            IF reverified THEN env.verify.val
            ELSE existingDomain.verification_token
        \* 2. signing tokens; enabling only when the query fails
        dkimTokens ==
            IF env.dkimGet.ok THEN env.dkimGet.val
            ELSE IF env.dkimEnable.ok THEN env.dkimEnable.val ELSE <<>>
    IN  IF ownershipDenied(existingDomain, userId)
        THEN Step(Thrown("addDomain", <<"Domain belongs to another user">>),
                  rows, reg.records, <<>>)
        ELSE IF statusQueryFatal(env.status)
        THEN Step(Thrown("addDomain",
                         <<"Failed to verify existing domain setup: ">>
                         \o env.status.err.message),
                  rows, reg.records,
                  <<Call("ses:getDomainVerificationStatus", env.status.ok)>>)
        ELSE reconcileExisting(rows, reg, existingDomain, env, reverified,
                 sesVerificationToken,
                 \* 3. configuration set, when none is recorded
                 createConfigurationSet(existingDomain.domain, env.configSet),
                 \* 4. records
                 generateDNSRecords(existingDomain.domain,
                     IF sesVerificationToken = NULL THEN <<>>
                     ELSE sesVerificationToken,
                     dkimTokens))

(***************************************************************************)
(* lib/domains.ts: addDomain (lines 80-94)                                 *)
(***************************************************************************)
addDomain(rows, reg, userId, domainName, env) ==
    IF ~isValidDomain(domainName)
    THEN Step(Thrown("addDomain", <<"Invalid domain format">>), rows, reg.records, <<>>)
    ELSE IF getDomainByName(rows, domainName) # NoRow
    THEN verifyAndCompleteExistingDomain(rows, reg, userId,
             getDomainByName(rows, domainName), env)
    ELSE addNewDomain(rows, reg, userId, domainName, env)

(***************************************************************************)
(* lib/domains.ts: checkDomainVerification, updateDomainStatus,            *)
(* refreshAllDomainStatuses                                                *)
(***************************************************************************)
mapStatus(sesStatus) ==
    IF sesStatus = "Success" THEN "verified"
    ELSE IF sesStatus = "Failed" THEN "failed"
    ELSE "pending"

\* The contrasting behaviour, an unconditional write.
statusWriteAlways(newStatus, stored) == TRUE

\* The write happens only when the mapped status differs (lines 460-462).
statusWriteNeeded(newStatus, stored) == newStatus # stored

updateDomainStatus(rows, domainId, status) ==
    {IF r.id = domainId THEN [r EXCEPT !.status = status] ELSE r : r \in rows}

\* [ret, rows, calls]
checkDomainVerification(rows, domainId, answer) ==
    LET domain == getDomainById(rows, domainId)
        newStatus == mapStatus(answer.val)
        c1 == <<CallV("ses:getDomainVerificationStatus", answer)>>
    IN  IF domain = NoRow
        THEN [ret |-> Thrown("checkDomainVerification", <<"Domain not found">>),
              rows |-> rows, calls |-> <<>>]
        ELSE IF ~answer.ok
        THEN [ret |-> [kind |-> "return", op |-> "checkDomainVerification",
                       status |-> domain.status],
              rows |-> rows, calls |-> c1]
        ELSE IF statusWriteNeeded(newStatus, domain.status)
        THEN [ret |-> [kind |-> "return", op |-> "checkDomainVerification",
                       status |-> newStatus],
              rows |-> updateDomainStatus(rows, domainId, newStatus),
              calls |-> c1 \o <<Call("db:updateStatus", TRUE)>>]
        ELSE [ret |-> [kind |-> "return", op |-> "checkDomainVerification",
                       status |-> newStatus],
              rows |-> rows, calls |-> c1]

\* A checkDomainVerification(domainId) call in the log of a sweep.
CheckCall(domainId, c) ==
    [call |-> "checkDomainVerification", ok |-> c.ret.kind = "return",
     id |-> domainId]

RECURSIVE sweepAbort(_, _, _, _)
\* The contrasting behaviour, a loop that ends at the first check whose
\* status query fails.
sweepAbort(rows, pendingIds, answers, cs) ==
    IF pendingIds = {} \/ (cs # <<>> /\ ~cs[Len(cs)].ok)
    THEN [rows |-> rows, calls |-> cs]
    ELSE LET id == CHOOSE i \in pendingIds : \A j \in pendingIds : i <= j
             c == checkDomainVerification(rows, id, answers[id])
         IN  sweepAbort(c.rows, pendingIds \ {id}, answers,
                        cs \o <<CheckCall(id, c)>> \o c.calls)

RECURSIVE sweep(_, _, _, _)
\* The for loop of refreshAllDomainStatuses over the rows selected as
\* pending, each checked with the provider's answer for it: [rows, calls]
sweep(rows, pendingIds, answers, cs) ==
    IF pendingIds = {} THEN [rows |-> rows, calls |-> cs]
    ELSE LET id == CHOOSE i \in pendingIds : \A j \in pendingIds : i <= j
             c == checkDomainVerification(rows, id, answers[id])
         IN  sweep(c.rows, pendingIds \ {id}, answers,
                   cs \o <<CheckCall(id, c)>> \o c.calls)

\* The contrasting behaviour, a SELECT without the WHERE clause.
pendingRowsAll(rows) == rows

\* SELECT ... WHERE status = 'pending' (lines 504-506).
pendingRows(rows) == {x \in rows : x.status = "pending"}

refreshAllDomainStatuses(rows, answers) ==
    LET s == sweep(rows, {r.id : r \in pendingRows(rows)}, answers, <<>>)
    IN  [ret |-> [kind |-> "return", op |-> "refreshAllDomainStatuses"],
         rows |-> s.rows, calls |-> s.calls]

(***************************************************************************)
(* The orchestrator as a state machine: one request at a time, each        *)
(* handled in one step and answered in the next.                           *)
(***************************************************************************)
NoReq == [op |-> "none"]

Registrar(domainName) ==
    [token |-> doToken, zones |-> doZones,
     records |-> IF domainName \in DOMAIN doRecords THEN doRecords[domainName]
                 ELSE <<>>]

DefaultEnv ==
    [verify |-> Err(ErrDenied), dkimEnable |-> Err(ErrDenied),
     dkimGet |-> Err(ErrDenied), configSet |-> Err(ErrDenied),
     status |-> Err(ErrDenied), registrar |-> DoAllOk]

\* The registrar behaviours that the call can meet.
RelevantDoAnswers(domainName) ==
    IF ~doToken THEN {DoAllOk}
    ELSE IF domainName \notin doZones
    THEN {a \in DoAnswers : a.zones2 = "ok" /\ a.records = "ok" /\ a.createFail = {}}
    ELSE DoAnswers

\* A row written before configuration sets were recorded: the column is
\* nullable and verifyAndCompleteExistingDomain provides for it (line 257).
LegacyRow ==
    [id |-> 1, user_id |-> "u1", domain |-> DomA, status |-> "pending",
     ses_configuration_set |-> NULL, dns_records |-> <<>>,
     verification_token |-> <<"t", "1">>]

Init ==
    /\ \/ /\ domains = {}
          /\ doToken \in BOOLEAN
          /\ doZones \in {{DomB}, {DomA, DomB}}
       \/ /\ domains = {LegacyRow}
          /\ doToken = TRUE
          /\ doZones = {DomA, DomB}
    /\ doRecords = [z \in ZoneNames |-> <<>>]
    /\ ret = Idle
    /\ calls = <<>>
    /\ req = NoReq
    /\ workers = <<>>
    /\ NoMail

\* The effect of an addDomain call on the state.
Apply(op, userId, domainName, r) ==
    /\ domains' = r.rows
    /\ doRecords' = IF domainName \in DOMAIN doRecords
                    THEN [doRecords EXCEPT ![domainName] = r.records]
                    ELSE doRecords
    /\ ret' = r.ret
    /\ calls' = r.calls
    /\ req' = [op |-> op, userId |-> userId, domainName |-> domainName,
               before |-> domains]
    /\ UNCHANGED <<doToken, doZones, workers>>
    /\ MailFrame

AddInvalid ==
    /\ ret = Idle
    /\ \E userId \in Users, domainName \in DomainNames :
        /\ ~isValidDomain(domainName)
        /\ Apply("addDomain", userId, domainName,
                 addDomain(domains, Registrar(domainName), userId, domainName,
                           DefaultEnv))

AddNew ==
    /\ ret = Idle
    /\ \E userId \in Users, domainName \in DomainNames :
        /\ isValidDomain(domainName)
        /\ getDomainByName(domains, domainName) = NoRow
        /\ \E v \in FirstVerifyAnswers :
           \E de \in (IF v.ok THEN DkimAnswers ELSE {Err(ErrDenied)}),
              cs \in (IF v.ok THEN ConfigSetAnswers ELSE {Err(ErrDenied)}) :
           \E a \in (IF v.ok /\ ~createConfigurationSet(domainName, cs).threw
                     THEN RelevantDoAnswers(domainName) ELSE {DoAllOk}) :
               Apply("addDomain", userId, domainName,
                     addDomain(domains, Registrar(domainName), userId, domainName,
                               [DefaultEnv EXCEPT !.verify = v, !.dkimEnable = de,
                                                  !.configSet = cs, !.registrar = a]))

AddExisting ==
    /\ ret = Idle
    /\ \E userId \in Users, domainName \in DomainNames :
        /\ isValidDomain(domainName)
        /\ getDomainByName(domains, domainName) # NoRow
        /\ LET row == getDomainByName(domains, domainName)
           IN  \E st \in (IF row.user_id = userId THEN ExistingStatusAnswers
                          ELSE {Err(ErrDenied)}) :
               \E v \in (IF row.user_id = userId /\ ~st.ok /\ isNotFound(st.err)
                         THEN VerifyAnswers ELSE {Err(ErrDenied)}),
                  dg \in (IF row.user_id = userId THEN DkimAnswers
                          ELSE {Err(ErrDenied)}) :
               \E de \in (IF row.user_id = userId /\ ~dg.ok THEN DkimAnswers
                          ELSE {Err(ErrDenied)}),
                  cs \in (IF row.user_id = userId
                             /\ row.ses_configuration_set = NULL
                          THEN ConfigSetAnswers ELSE {Err(ErrDenied)}),
                  a \in (IF row.user_id = userId THEN RelevantDoAnswers(domainName)
                         ELSE {DoAllOk}) :
                   Apply("addDomain", userId, domainName,
                         addDomain(domains, Registrar(domainName), userId,
                                   domainName,
                                   [verify |-> v, dkimEnable |-> de, dkimGet |-> dg,
                                    configSet |-> cs, status |-> st,
                                    registrar |-> a]))

CheckVerification ==
    /\ ret = Idle
    /\ \E domainId \in 1..(Cardinality(domains) + 1), answer \in StatusAnswers :
        LET c == checkDomainVerification(domains, domainId, answer)
        IN  /\ domains' = c.rows
            /\ ret' = c.ret
            /\ calls' = c.calls
            /\ req' = [op |-> "checkDomainVerification", domainId |-> domainId,
                       before |-> domains]
            /\ UNCHANGED <<doToken, doZones, doRecords, workers>>
            /\ MailFrame

RefreshAll ==
    /\ ret = Idle
    /\ \E answers \in [{r.id : r \in domains} -> StatusAnswers] :
        LET c == refreshAllDomainStatuses(domains, answers)
        IN  /\ domains' = c.rows
            /\ ret' = c.ret
            /\ calls' = c.calls
            /\ req' = [op |-> "refreshAllDomainStatuses", before |-> domains]
            /\ UNCHANGED <<doToken, doZones, doRecords, workers>>
            /\ MailFrame

\* The caller receives the outcome; the next request may start.
Respond ==
    /\ ret # Idle
    /\ ret' = Idle
    /\ calls' = <<>>
    /\ req' = NoReq
    /\ UNCHANGED <<domains, doToken, doZones, doRecords, workers>>
    /\ MailFrame

Next ==
    \/ AddInvalid
    \/ AddNew
    \/ AddExisting
    \/ CheckVerification
    \/ RefreshAll
    \/ Respond

Spec == Init /\ [][Next]_vars

(***************************************************************************)
(* Vocabulary of the properties                                            *)
(***************************************************************************)
InAdd == ret # Idle /\ req.op = "addDomain"
InCheck == ret # Idle /\ req.op = "checkDomainVerification"
InRefresh == ret # Idle /\ req.op = "refreshAllDomainStatuses"

\* The row of the requested name when the call started.
Before == getDomainByName(req.before, req.domainName)

NewPath == InAdd /\ isValidDomain(req.domainName) /\ Before = NoRow
ExistingOwnPath == InAdd /\ Before # NoRow /\ Before.user_id = req.userId
ForeignPath == InAdd /\ Before # NoRow /\ Before.user_id # req.userId

FailedIn(log, name) == \E i \in 1..Len(log) : log[i].call = name /\ ~log[i].ok
SucceededIn(log, name) == \E i \in 1..Len(log) : log[i].call = name /\ log[i].ok
MadeIn(log, name) == \E i \in 1..Len(log) : log[i].call = name

PendingRowOf(name) ==
    \E r \in domains : r.domain = name /\ r.status = "pending"

\* C1: addDomain for a name recorded for another user fails with the
\* ownership error, makes no adapter call and no write, and leaves the
\* table as it was.
C1_OwnershipEnforced ==
    ForeignPath =>
        /\ ret.kind = "throw"
        /\ ret.message = <<"Domain belongs to another user">>
        /\ calls = <<>>
        /\ domains = req.before

C1_Witness == ForeignPath /\ ret.kind = "throw" /\ isValidDomain(req.domainName)

\* C4: on the new-domain path a failure of createConfigurationSet (not an
\* already-exists signal) after a successful verifyDomain still yields an
\* outcome and a pending row whose configuration-set name is unset.
C4_ConfigSetFailureNonFatal ==
    (NewPath /\ SucceededIn(calls, "ses:verifyDomain")
             /\ FailedIn(calls, "ses:createConfigurationSet")) =>
        /\ ret.kind = "return"
        /\ \E r \in domains :
              /\ r.domain = req.domainName
              /\ r.status = "pending"
              /\ r.ses_configuration_set = NULL

\* C5: on the new-domain path a failure of enableDomainDkim still yields an
\* outcome, a pending row, and exactly the four fixed records.
C5_SigningFailureNonFatal ==
    (NewPath /\ FailedIn(calls, "ses:enableDomainDkim")) =>
        /\ ret.kind = "return"
        /\ PendingRowOf(req.domainName)
        /\ [i \in 1..Len(ret.dnsRecords) |-> ret.dnsRecords[i].type]
               = <<"TXT", "MX", "TXT", "TXT">>

\* C6: on the new-domain path a failure of verifyDomain makes addDomain
\* throw; no row is inserted and no later step runs.
C6_VerifyRequired ==
    (NewPath /\ FailedIn(calls, "ses:verifyDomain")) =>
        /\ ret.kind = "throw"
        /\ domains = req.before
        /\ calls = <<Call("ses:verifyDomain", FALSE)>>

C6_Witness == NewPath /\ FailedIn(calls, "ses:verifyDomain") /\ ret.kind = "throw"

\* C7: on the existing-domain path of the owner addDomain returns an outcome
\* whose instructions start with "Domain already exists.", whichever
\* provider calls fail.
C7_ExistingPathAbsorbs ==
    ExistingOwnPath =>
        /\ ret.kind = "return"
        /\ StartsWith(ret.setupInstructions, <<"Domain already exists.">>)

C7_Witness ==
    /\ ExistingOwnPath
    /\ ret.kind = "return"
    /\ FailedIn(calls, "ses:getDomainVerificationStatus")
    /\ FailedIn(calls, "ses:verifyDomain")
    /\ FailedIn(calls, "ses:getDomainDkimTokens")
    /\ FailedIn(calls, "ses:enableDomainDkim")
    /\ FailedIn(calls, "ses:createConfigurationSet")
    /\ FailedIn(calls, "do:getDomainRecords")

\* The provider answers of a call in which nothing fails.
CleanEnvs ==
    {[verify |-> v, dkimEnable |-> de, dkimGet |-> dg, configSet |-> Ok(NULL),
      status |-> st, registrar |-> DoAllOk] :
        v \in {Ok(t) : t \in Tokens}, de \in {Ok(l) : l \in DkimLists},
        dg \in {Ok(l) : l \in DkimLists}, st \in {Ok(x) : x \in SesStatuses}}

\* C8: when enableDomainDkim or the creation of a single record fails during
\* addDomain, the returned instructions differ from those of the same call
\* (same arguments, same table, same registrar) in which nothing failed.
C8_FailuresCarryAdvisory ==
    [][(/\ ret = Idle
        /\ req'.op = "addDomain"
        /\ ret'.kind = "return"
        /\ \/ FailedIn(calls', "ses:enableDomainDkim")
           \/ FailedIn(calls', "do:createDNSRecord"))
       => \A e \in CleanEnvs :
              LET run == addDomain(domains, Registrar(req'.domainName),
                                   req'.userId, req'.domainName, e)
              IN  (/\ run.ret.kind = "return"
                   /\ \A i \in 1..Len(run.calls) : run.calls[i].ok)
                  => run.ret.setupInstructions # ret'.setupInstructions]_vars

\* C9: a row's status never moves directly from verified to failed or from
\* failed to verified.
C9_StatusTransitions ==
    ret # Idle =>
        \A b \in req.before, r \in domains :
            r.id = b.id =>
                /\ ~(b.status = "verified" /\ r.status = "failed")
                /\ ~(b.status = "failed" /\ r.status = "verified")

\* The status the provider's answer stands for.
Mirrors(status, sesStatus) ==
    \/ sesStatus = "Success" /\ status = "verified"
    \/ sesStatus = "Failed" /\ status = "failed"
    \/ sesStatus \in {"Pending", "NotStarted", "TemporaryFailure"}
       /\ status = "pending"

\* C9 (amended): a row's status changes only in checkDomainVerification,
\* called directly or by the sweep, and becomes the mapping of a status the
\* provider reported in that call, whatever it was before; the sweep moves
\* pending rows only; addDomain changes no row's status and inserts rows as
\* pending.
C9_StatusFollowsProvider ==
    ret # Idle =>
        /\ \A b \in req.before, r \in domains :
              (r.id = b.id /\ r.status # b.status) =>
                  /\ InCheck \/ InRefresh
                  /\ MadeIn(calls, "db:updateStatus")
                  /\ \E i \in 1..Len(calls) :
                        /\ calls[i].call = "ses:getDomainVerificationStatus"
                        /\ calls[i].ok
                        /\ Mirrors(r.status, calls[i].val)
                  /\ InRefresh => b.status = "pending"
        /\ \A r \in domains :
              (\A b \in req.before : b.id # r.id) => r.status = "pending"

C9_Witness ==
    /\ InCheck
    /\ \E b \in req.before, r \in domains :
          r.id = b.id /\ b.status = "verified" /\ r.status = "failed"

\* C10: checkDomainVerification answers verified for Success, failed for
\* Failed and pending for Pending, NotStarted and TemporaryFailure; it writes
\* the status exactly when the mapped status differs from the stored one.
C10_StatusMapping ==
    (InCheck /\ SucceededIn(calls, "ses:getDomainVerificationStatus")) =>
        LET stored == getDomainById(req.before, req.domainId)
            reported == calls[1].val
        IN  /\ ret.kind = "return"
            /\ Mirrors(ret.status, reported)
            /\ ret.status # stored.status =>
                  /\ MadeIn(calls, "db:updateStatus")
                  /\ getDomainById(domains, req.domainId)
                         = [stored EXCEPT !.status = ret.status]
            /\ ret.status = stored.status =>
                  /\ ~MadeIn(calls, "db:updateStatus")
                  /\ domains = req.before

C10_Witness ==
    /\ InCheck
    /\ SucceededIn(calls, "ses:getDomainVerificationStatus")
    /\ calls[1].val = "TemporaryFailure"
    /\ getDomainById(req.before, req.domainId).status = "verified"
    /\ MadeIn(calls, "db:updateStatus")

(***************************************************************************)
(* Properties of the registrar step                                        *)
(***************************************************************************)
\* The requests the registrar adapter can make.
DoCalls == {"do:getDomains", "do:getDomainRecords", "do:createDNSRecord"}
SesCalls ==
    {"ses:verifyDomain", "ses:enableDomainDkim", "ses:getDomainDkimTokens",
     "ses:createConfigurationSet", "ses:getDomainVerificationStatus"}

AllSesCallsSucceeded ==
    \A i \in 1..Len(calls) : calls[i].call \in SesCalls => calls[i].ok

\* C12: with DO_API_TOKEN unset and every SES call succeeding, addDomain for
\* a new valid name returns, makes no registrar request, reports no created
\* record and tells the caller to create the records manually.
C12_RegistrarDisabled ==
    (NewPath /\ ~doToken /\ AllSesCallsSucceeded) =>
        /\ ret.kind = "return"
        /\ \A i \in 1..Len(calls) : calls[i].call \notin DoCalls
        /\ ret.digitalOceanRecords = <<>>
        /\ ret.setupInstructions =
              <<"Domain not found in Digital Ocean. Please create the DNS records manually or add the domain to your Digital Ocean account first.">>

\* The case with the zone of the name in the registrar's account.
C12_Witness ==
    /\ NewPath /\ ~doToken /\ AllSesCallsSucceeded
    /\ req.domainName \in doZones
    /\ ret.kind = "return"
    /\ Len(ret.dnsRecords) = 5

(***************************************************************************)
(* The response of POST /api/domains                                       *)
(***************************************************************************)
\* The test of the catch block (route.ts line 218) on an Error thrown by
\* addDomain, which carries a message and no errors property.
isRequestDataError(message) ==
    Includes(message, <<"validation">>) \/ Includes(message, <<"parse">>)

\* The HTTP status POST /api/domains answers with for the outcome r of
\* addDomain.
postDomainsStatus(r) ==
    IF r.kind # "throw" THEN 200
    ELSE IF isRequestDataError(r.message) THEN 400
    ELSE 500

\* C17: POST /api/domains answers 400 when addDomain throws the
\* invalid-domain-format error, and 403 or 409 when addDomain throws the
\* domain-belongs-to-another-user error.
C17_FatalErrorTranslation ==
    (InAdd /\ ret.kind = "throw") =>
        /\ ret.message = <<"Invalid domain format">>
             => postDomainsStatus(ret) = 400
        /\ ret.message = <<"Domain belongs to another user">>
             => postDomainsStatus(ret) \in {403, 409}

(***************************************************************************)
(* POST /api/domains/[id]/retry-dns, and the zone gate                     *)
(***************************************************************************)
DnsResponse(status, success, text) ==
    [kind |-> "response", op |-> "retryDns", status |-> status,
     success |-> success, text |-> text]

\* Lines 99-150 of the route, for the caller's own domain: [ret, rows,
\* records, calls].  own is the answer of verifyDomainOwnership, s the result
\* of setupDomainDNS, which is awaited only when own is true.
retryDnsRegistrar(rows, reg, domain, dg, own, s) ==
    IF ~own.val
    THEN Step(DnsResponse(400, FALSE,
                  <<"Domain ">> \o domain.domain
                  \o <<" not found in your DigitalOcean account. Please add it first.">>),
              rows, reg.records,
              <<Call("ses:getDomainDkimTokens", dg.ok)>> \o own.calls)
    ELSE IF s.threw
    THEN Step(DnsResponse(500, FALSE,
                  <<"Failed to setup DigitalOcean DNS: ">> \o s.message),
              rows, s.records,
              <<Call("ses:getDomainDkimTokens", dg.ok)>> \o own.calls \o s.calls)
    ELSE Step(DnsResponse(200, TRUE,
                  <<"DNS records have been successfully created/updated in DigitalOcean.">>),
              rows, s.records,
              <<Call("ses:getDomainDkimTokens", dg.ok)>> \o own.calls \o s.calls)

\* generateDNSRecords(domainName, domain.verification_token || "", dkimTokens)
\* of lines 84-97; dg is the answer of getDomainDkimTokens.
retryDnsRecords(domain, dg) ==
    generateDNSRecords(domain.domain,
        IF domain.verification_token = NULL THEN <<>>
        ELSE domain.verification_token,
        IF dg.ok THEN dg.val ELSE <<>>)

\* if (!domain || domain.user_id !== user.id)  (line 74)
retryDnsDenied(domain, userId) == domain = NoRow \/ domain.user_id # userId

\* The route after the JWT is verified (lines 71-151).
retryDns(rows, reg, domainId, userId, dg, e) ==
    IF retryDnsDenied(getDomainById(rows, domainId), userId)
    THEN Step(DnsResponse(404, FALSE, <<"Domain not found">>), rows,
              reg.records, <<>>)
    ELSE retryDnsRegistrar(rows, reg, getDomainById(rows, domainId), dg,
             verifyDomainOwnership(reg, getDomainById(rows, domainId).domain, e),
             setupDomainDNS(reg, getDomainById(rows, domainId).domain,
                 retryDnsRecords(getDomainById(rows, domainId), dg), e))

RetryDns ==
    /\ ret = Idle
    /\ \E userId \in Users, row \in domains :
       \E dg \in (IF row.user_id = userId THEN DkimAnswers ELSE {Err(ErrDenied)}),
          a \in (IF row.user_id = userId THEN RelevantDoAnswers(row.domain)
                 ELSE {DoAllOk}) :
           Apply("retryDns", userId, row.domain,
                 retryDns(domains, Registrar(row.domain), row.id, userId, dg, a))

DnsNext ==
    \/ Next
    \/ RetryDns

SpecDns == Init /\ [][DnsNext]_vars

InRetryDns == ret # Idle /\ req.op = "retryDns"

\* A record creation in the log comes after a zone listing that succeeded,
\* and the zone of the requested name is the registrar's.
CreatedBehindListing ==
    \A j \in 1..Len(calls) :
        calls[j].call = "do:createDNSRecord" =>
            /\ req.domainName \in doZones
            /\ \E i \in 1..(j - 1) :
                  calls[i].call = "do:getDomains" /\ calls[i].ok

ManualTexts ==
    {"Domain not found in Digital Ocean. Please create the DNS records manually or add the domain to your Digital Ocean account first.",
     "DNS records need to be created manually. Please add the following records to your DNS provider:",
     "Domain not found in Digital Ocean. Please add the domain to your Digital Ocean account or create DNS records manually.",
     "DNS records need to be updated manually in Digital Ocean."}

\* C20: in addDomain and in the retry-DNS endpoint createDNSRecord is called
\* only after a zone listing has shown a zone of exactly the domain's name;
\* when the zone is absent no record is created and the caller receives
\* manual-setup instructions instead of an error.
C20_ZoneGate ==
    /\ (InAdd \/ InRetryDns) => CreatedBehindListing
    /\ (InAdd /\ ret.kind = "return" /\ req.domainName \notin doZones) =>
          /\ ~MadeIn(calls, "do:createDNSRecord")
          /\ \E t \in ManualTexts :
                ret.setupInstructions[Len(ret.setupInstructions)] = t
    /\ (InRetryDns /\ ret.status # 404 /\ req.domainName \notin doZones) =>
          /\ ~MadeIn(calls, "do:createDNSRecord")
          /\ ret.success

(***************************************************************************)
(* Properties of the existing-domain path                                  *)
(***************************************************************************)
\* The row of the requested domain after the call.
After == getDomainById(domains, Before.id)

\* C21: every addDomain call on an already-recorded domain that returns an
\* outcome has written the newly planned record list to the row's
\* dns_records, also when neither the token nor the configuration set
\* changed: the persisted dns_records equal the dnsRecords of the outcome.
C21_RecordListRefreshed ==
    (ExistingOwnPath /\ ret.kind = "return") =>
        /\ After # NoRow
        /\ After.dns_records = ret.dnsRecords

\* The token query of the call answered with no signing token: an error or
\* an empty list.
NoSigningTokens ==
    \E i \in 1..Len(calls) :
        /\ calls[i].call = "ses:getDomainDkimTokens"
        /\ (~calls[i].ok \/ calls[i].val = <<>>)

\* C22: on the existing-domain path, whenever getDomainDkimTokens yields no
\* signing tokens (an empty list as well as an error), enableDomainDkim is
\* attempted.
C22_SigningEnabledWhenAbsent ==
    (ExistingOwnPath /\ ret.kind = "return" /\ NoSigningTokens) =>
        MadeIn(calls, "ses:enableDomainDkim")

\* The status query of the call failed with the provider's not-found error.
NotFoundSignal ==
    \E j \in 1..Len(calls) :
        /\ calls[j].call = "ses:getDomainVerificationStatus"
        /\ ~calls[j].ok
        /\ calls[j].err = ErrNotFound

\* verifyDomain was called in the call and answered the token t.
Reverified(t) ==
    \E j \in 1..Len(calls) :
        calls[j].call = "ses:verifyDomain" /\ calls[j].ok /\ calls[j].val = t

\* C27: on the existing-domain path verifyDomain is called if and only if
\* the status query fails with a not-found signal; when it is called and
\* succeeds, the fresh token replaces verification_token in the row and is
\* the value of the planned ownership TXT record; when the status query
\* succeeds or fails with any other error, the stored token is unchanged.
C27_ReverificationOnNotFound ==
    (ExistingOwnPath /\ ret.kind = "return") =>
        /\ MadeIn(calls, "ses:verifyDomain") <=> NotFoundSignal
        /\ \A t \in Tokens :
              Reverified(t) =>
                  /\ After.verification_token = t
                  /\ ret.dnsRecords[1].name = <<"_amazonses", ".">> \o req.domainName
                  /\ ret.dnsRecords[1].value = t
        /\ ~NotFoundSignal =>
              After.verification_token = Before.verification_token

\* A re-verification that replaced the stored token with another one.
C27_Witness ==
    /\ ExistingOwnPath /\ ret.kind = "return"
    /\ NotFoundSignal
    /\ \E t \in Tokens :
          /\ Reverified(t)
          /\ t # Before.verification_token
          /\ After.verification_token = t

(***************************************************************************)
(* The cached record list                                                  *)
(***************************************************************************)
\* dns_records of row r is the list planned from the row's domain and
\* verification token and some list of signing tokens, and its ownership
\* record carries the token.
RegenerableRow(r) ==
    /\ r.dns_records[1].type = "TXT"
    /\ r.dns_records[1].name = <<"_amazonses", ".">> \o r.domain
    /\ r.dns_records[1].value = r.verification_token
    /\ \E l \in DkimLists :
          r.dns_records = generateDNSRecords(r.domain, r.verification_token, l)

\* C24: after any sequence of addDomain calls, in every row whose
\* dns_records addDomain has written, the ownership TXT record has the
\* row's verification_token as value and dns_records equals
\* generateDNSRecords(domain, verification_token, signing tokens).
C24_CachedRecordsAgree ==
    \A r \in domains : r.dns_records # <<>> => RegenerableRow(r)

\* A call that re-verified the domain and wrote the fresh token and the
\* records planned from it.
C24_Witness ==
    /\ ExistingOwnPath /\ ret.kind = "return"
    /\ After # NoRow
    /\ After.verification_token # Before.verification_token
    /\ RegenerableRow(After)

(***************************************************************************)
(* Concurrent reconciliation: invocations of setupDomainDNS (lines         *)
(* 252-352) for the same domain and the same planned records, one          *)
(* registrar call per step.  The registrar answers every call and stores   *)
(* every record posted to it, as posted.                                   *)
(***************************************************************************)
Workers == {1, 2}

RaceDkimLists == {<<>>, <<<<"k", "1">>>>, <<<<"k", "1">>, <<"k", "2">>>>}

RacePlans ==
    {generateDNSRecords(DomA, t, l) : t \in Tokens, l \in RaceDkimLists}

RaceInit ==
    /\ domains = {}
    /\ doToken = TRUE
    /\ doZones = {DomA, DomB}
    /\ doRecords = [z \in ZoneNames |-> <<>>]
    /\ ret = Idle
    /\ calls = <<>>
    /\ req = NoReq
    /\ NoMail
    /\ \E plan \in RacePlans :
          workers = [w \in Workers |->
                        [pc |-> "getDomains", domain |-> DomA, plan |-> plan,
                         existingRecords |-> <<>>, i |-> 1, created |-> <<>>,
                         after |-> {}]]

RaceFrame ==
    UNCHANGED <<domains, doToken, doZones, ret, calls, req, apiKeys, emailLogs>>

\* getDomains and the zone gate (lines 272-279); after notes the
\* invocations that had returned when this one started.
RaceGetDomains(w) ==
    /\ workers[w].pc = "getDomains"
    /\ workers' = [workers EXCEPT
          ![w].pc = IF workers[w].domain \in doZones THEN "getDomainRecords"
                    ELSE "threw",
          ![w].after = {v \in Workers : workers[v].pc = "done"}]
    /\ UNCHANGED doRecords
    /\ RaceFrame

\* getDomainRecords (line 282): the listing the whole loop compares with.
RaceGetRecords(w) ==
    /\ workers[w].pc = "getDomainRecords"
    /\ workers' = [workers EXCEPT
          ![w].pc = "loop",
          ![w].existingRecords = doRecords[workers[w].domain]]
    /\ UNCHANGED doRecords
    /\ RaceFrame

\* One iteration that finds the record in the listing (lines 308-337).
RaceSkip(w) ==
    LET me == workers[w]
    IN  /\ me.pc = "loop"
        /\ me.i <= Len(me.plan)
        /\ recordExists(me.domain, me.plan[me.i], me.existingRecords)
        /\ workers' = [workers EXCEPT ![w].i = me.i + 1]
        /\ UNCHANGED doRecords
        /\ RaceFrame

\* One iteration that posts the record (lines 304-307).
RaceCreate(w) ==
    LET me == workers[w]
        st == Stored(doRecords[me.domain], Payload(me.domain, me.plan[me.i]))
    IN  /\ me.pc = "loop"
        /\ me.i <= Len(me.plan)
        /\ ~recordExists(me.domain, me.plan[me.i], me.existingRecords)
        /\ doRecords' = [doRecords EXCEPT ![me.domain] = Append(@, st)]
        /\ workers' = [workers EXCEPT ![w].i = me.i + 1,
                                      ![w].created = Append(me.created, st)]
        /\ RaceFrame

\* return createdRecords (line 347)
RaceReturn(w) ==
    /\ workers[w].pc = "loop"
    /\ workers[w].i > Len(workers[w].plan)
    /\ workers' = [workers EXCEPT ![w].pc = "done"]
    /\ UNCHANGED doRecords
    /\ RaceFrame

RaceNext ==
    \E w \in Workers :
        \/ RaceGetDomains(w)
        \/ RaceGetRecords(w)
        \/ RaceSkip(w)
        \/ RaceCreate(w)
        \/ RaceReturn(w)

SpecRace == RaceInit /\ [][RaceNext]_vars

\* The registrar records that are planned record p as createDNSRecord
\* submits it.
HeldCopies(domain, p) ==
    {i \in 1..Len(doRecords[domain]) :
        /\ doRecords[domain][i].type = Payload(domain, p).type
        /\ doRecords[domain][i].name = Payload(domain, p).name
        /\ doRecords[domain][i].data = Payload(domain, p).data}

\* C2: a reconciliation run after another one of the same planned records
\* has returned creates no record, and the registrar never comes to hold a
\* second copy of the planned MX record that way.
C2_IdempotentReconciliation ==
    \A w \in Workers, v \in Workers :
        (workers[v].pc = "done" /\ w \in workers[v].after) =>
            /\ workers[v].created = <<>>
            /\ \A k \in 1..Len(workers[v].plan) :
                  workers[v].plan[k].type = "MX" =>
                      Cardinality(HeldCopies(workers[v].domain,
                                             workers[v].plan[k])) = 1

\* C3: when the concurrent reconciliations have returned, none has failed
\* and the registrar holds every planned record exactly once.
C3_ConcurrentNoDuplicates ==
    (\A w \in Workers : workers[w].pc \in {"done", "threw"}) =>
        \A w \in Workers :
            /\ workers[w].pc = "done"
            /\ \A k \in 1..Len(workers[w].plan) :
                  Cardinality(HeldCopies(workers[w].domain,
                                         workers[w].plan[k])) = 1
(***************************************************************************)
(* Concurrent addDomain calls for one domain name.  A call reads the table *)
(* once, in getDomainByName (lines 89-94), and writes it once, in the      *)
(* INSERT (lines 146-163) or in the UPDATE of the existing-domain path     *)
(* (lines 309-343); the other call may run between the two.                *)
(***************************************************************************)
AddRaceInit ==
    /\ domains \in {{}, {LegacyRow}}
    /\ doToken \in BOOLEAN
    /\ doZones = {DomA, DomB}
    /\ doRecords = [z \in ZoneNames |-> <<>>]
    /\ ret = Idle
    /\ calls = <<>>
    /\ req = NoReq
    /\ NoMail
    /\ \E u1 \in Users, u2 \in Users :
          workers = [w \in Workers |->
                        [pc |-> "lookup", userId |-> IF w = 1 THEN u1 ELSE u2,
                         domainName |-> DomA, existingDomain |-> NoRow,
                         ret |-> Idle, calls |-> <<>>]]

AddRaceFrame ==
    UNCHANGED <<doToken, doZones, ret, calls, req, apiKeys, emailLogs>>

\* const existingDomain = await getDomainByName(domainName)
AddRaceLookup(w) ==
    /\ workers[w].pc = "lookup"
    /\ isValidDomain(workers[w].domainName)
    /\ LET row == getDomainByName(domains, workers[w].domainName)
       IN  workers' = [workers EXCEPT
               ![w].existingDomain = row,
               ![w].pc = IF row = NoRow THEN "new" ELSE "existing"]
    /\ UNCHANGED <<domains, doRecords>>
    /\ AddRaceFrame

\* The effect of the rest of a call, r, on the table and the registrar.
AddRaceFinish(w, r) ==
    /\ domains' = r.rows
    /\ doRecords' = [doRecords EXCEPT ![workers[w].domainName] = r.records]
    /\ workers' = [workers EXCEPT ![w].pc = "done", ![w].ret = r.ret,
                                  ![w].calls = r.calls]
    /\ AddRaceFrame

\* The new-domain path of a call that found no row, up to its INSERT.
AddRaceNew(w) ==
    /\ workers[w].pc = "new"
    /\ \E v \in FirstVerifyAnswers, cs \in {Ok(NULL), Err(ErrDenied)} :
          AddRaceFinish(w,
              addNewDomain(domains, Registrar(workers[w].domainName),
                           workers[w].userId, workers[w].domainName,
                           [DefaultEnv EXCEPT !.verify = v,
                                              !.dkimEnable = Ok(<<>>),
                                              !.configSet = cs]))

\* The existing-domain path of a call that found a row, up to its UPDATE.
AddRaceExisting(w) ==
    /\ workers[w].pc = "existing"
    /\ \E st \in {Ok("Pending"), Err(ErrNotFound)}, v \in VerifyAnswers,
          cs \in {Ok(NULL), Err(ErrDenied)} :
          AddRaceFinish(w,
              verifyAndCompleteExistingDomain(domains,
                  Registrar(workers[w].domainName), workers[w].userId,
                  workers[w].existingDomain,
                  [DefaultEnv EXCEPT !.status = st, !.verify = v,
                                     !.dkimGet = Ok(<<>>), !.configSet = cs]))

AddRaceNext ==
    \E w \in Workers :
        \/ AddRaceLookup(w)
        \/ AddRaceNew(w)
        \/ AddRaceExisting(w)

SpecAddRace == AddRaceInit /\ [][AddRaceNext]_vars

\* C11: whatever the interleaving of concurrent addDomain calls for one
\* name, at most one row holds the name, so the name has one owner.
C11_UniqueDomainName ==
    \A r1 \in domains, r2 \in domains :
        r1.domain = r2.domain => r1 = r2

\* Two users both found no row; one INSERT succeeded and the other was
\* rejected.
C11_Witness ==
    /\ workers[1].pc = "done" /\ workers[2].pc = "done"
    /\ workers[1].userId # workers[2].userId
    /\ workers[1].existingDomain = NoRow /\ workers[2].existingDomain = NoRow
    /\ \E w \in Workers, v \in Workers :
          /\ workers[w].ret.kind = "return"
          /\ workers[v].ret.kind = "throw"
          /\ workers[v].ret.message
                 = <<"Failed to add domain: ", "duplicate key value">>
    /\ Cardinality(domains) = 1

\* C29: if addDomain on the new-domain path throws, for instance because
\* the INSERT of the row fails, then that call has created no DNS record at
\* the registrar.
C29_NoOrphanedRecords ==
    \A w \in Workers :
        (/\ workers[w].pc = "done"
         /\ workers[w].existingDomain = NoRow
         /\ workers[w].ret.kind = "throw")
            => ~SucceededIn(workers[w].calls, "do:createDNSRecord")

(***************************************************************************)
(* lib/ses.ts: generateDNSRecords applied to a domain name, a verification *)
(* token and up to MaxDkimTokens signing tokens.                           *)
(***************************************************************************)
MaxDkimTokens == 3

DkimTokenValues == {<<"k", "1">>, <<"k", "2">>}

RECURSIVE SeqsUpTo(_, _)
\* The sequences over S of length at most n.
SeqsUpTo(S, n) ==
    IF n = 0 THEN {<<>>}
    ELSE LET shorter == SeqsUpTo(S, n - 1)
         IN  shorter \cup {Append(q, x) : q \in shorter, x \in S}

PlanInit ==
    /\ domains = {}
    /\ doToken = FALSE
    /\ doZones = {}
    /\ doRecords = <<>>
    /\ workers = <<>>
    /\ NoMail
    /\ calls = <<>>
    /\ ret = Idle
    /\ \E domain \in {DomA, DomB}, verificationToken \in Tokens \cup {<<>>},
          dkimTokens \in SeqsUpTo(DkimTokenValues, MaxDkimTokens) :
          req = [op |-> "generateDNSRecords", domain |-> domain,
                 verificationToken |-> verificationToken,
                 dkimTokens |-> dkimTokens]

PlanApply ==
    /\ ret = Idle
    /\ ret' = [kind |-> "return",
               records |-> generateDNSRecords(req.domain, req.verificationToken,
                                              req.dkimTokens)]
    /\ UNCHANGED <<domains, doToken, doZones, doRecords, workers, calls, req>>
    /\ MailFrame

PlanNext == PlanApply

SpecPlan == PlanInit /\ [][PlanNext]_vars

\* C13: generateDNSRecords returns 4 + N records: TXT, MX, TXT, TXT, then
\* one CNAME per signing token, in the order of the tokens.
C13_PlannerCompleteness ==
    ret # Idle =>
        LET N == Len(req.dkimTokens)
        IN  /\ Len(ret.records) = 4 + N
            /\ [i \in 1..4 |-> ret.records[i].type] = <<"TXT", "MX", "TXT", "TXT">>
            /\ \A i \in 1..N :
                  /\ ret.records[4 + i].type = "CNAME"
                  /\ ret.records[4 + i].name
                         = req.dkimTokens[i] \o <<".", "_domainkey", ".">>
                           \o req.domain
                  /\ ret.records[4 + i].value
                         = req.dkimTokens[i]
                           \o <<".", "dkim", ".", "amazonses", ".", "com", ".">>

C13_Witness ==
    /\ ret # Idle
    /\ req.dkimTokens = <<<<"k", "2">>, <<"k", "1">>, <<"k", "2">>>>
    /\ Len(ret.records) = 7
(***************************************************************************)
(* lib/api-keys.ts: generateApiKey, verifyApiKey, deleteApiKey             *)
(* An API key is the string frs_<keyId>_<secret>; "frs" is one atom, the   *)
(* characters of keyId and secret are atoms of their own.                  *)
(***************************************************************************)
KeyIdLen == 2       \* stands for nanoid(8)
SecretLen == 1      \* stands for nanoid(32)

\* Three of the 64 symbols nanoid draws from: a letter and the two symbols
\* that are not alphanumeric.
NanoidAlphabet == {"a", "_", "-"}

nanoid(size) == {q \in SeqsUpTo(NanoidAlphabet, size) : Len(q) = size}

\* bcrypt.hash and bcrypt.compare: compare(s, hash(t)) is true exactly when
\* s = t; the hash does not expose t to any other operation.
bcryptHash(s) == [bcrypt |-> s]
bcryptCompare(s, hash) == hash.bcrypt = s

\* String.prototype.indexOf(c, from): zero-based, -1 when absent.
IndexOfFrom(s, c, from) ==
    IF \E i \in from..(Len(s) - 1) : s[i + 1] = c
    THEN CHOOSE i \in from..(Len(s) - 1) :
             s[i + 1] = c /\ \A j \in from..(i - 1) : s[j + 1] # c
    ELSE -1

\* String.prototype.substring(start, end) for 0 <= start <= end.
Substring(s, start, end) == SubSeq(s, start + 1, end)

ApiKeyString(keyId, keySecret) == <<"frs", "_">> \o keyId \o <<"_">> \o keySecret

KeyNames == {"n1", "n2"}

\* UNIQUE(user_id, key_name) of table api_keys.
keyNameTaken(rows, userId, keyName) ==
    \E r \in rows : r.user_id = userId /\ r.key_name = keyName

\* generateApiKey with the two values nanoid drew: [ret, rows, calls].
generateApiKey(rows, userId, domainId, keyName, permissions, keyId, keySecret) ==
    IF keyNameTaken(rows, userId, keyName)
    THEN [ret |-> Thrown("generateApiKey",
                         <<"Failed to create API key: ", "duplicate key value">>),
          rows |-> rows, calls |-> <<Call("db:insertApiKey", FALSE)>>]
    ELSE LET data == [id |-> FreshId(rows), user_id |-> userId,
                      domain_id |-> domainId, key_name |-> keyName,
                      key_hash |-> bcryptHash(ApiKeyString(keyId, keySecret)),
                      key_prefix |-> <<"frs", "_">> \o keyId,
                      permissions |-> permissions]
         IN  [ret |-> [kind |-> "return", op |-> "generateApiKey", row |-> data,
                       key |-> ApiKeyString(keyId, keySecret)],
              rows |-> rows \cup {data},
              calls |-> <<Call("db:insertApiKey", TRUE)>>]

\* The rows of the SELECT by key_prefix that bcrypt.compare accepts
\* (lines 92-103).
matchingKeys(rows, prefix, apiKey) ==
    {r \in rows : r.key_prefix = prefix /\ bcryptCompare(apiKey, r.key_hash)}

\* verifyApiKey(apiKey): the key row, or NoRow for null.
verifyApiKey(rows, apiKey) ==
    LET firstUnderscore == IndexOfFrom(apiKey, "_", 0)
        secondUnderscore == IndexOfFrom(apiKey, "_", firstUnderscore + 1)
    IN  IF firstUnderscore = -1 \/ secondUnderscore = -1 THEN NoRow
        ELSE IF \/ Substring(apiKey, 0, firstUnderscore) # <<"frs">>
                \/ Substring(apiKey, firstUnderscore + 1, secondUnderscore) = <<>>
                \/ Substring(apiKey, secondUnderscore + 1, Len(apiKey)) = <<>>
        THEN NoRow
        ELSE IF matchingKeys(rows,
                    Substring(apiKey, 0, firstUnderscore) \o <<"_">>
                    \o Substring(apiKey, firstUnderscore + 1, secondUnderscore),
                    apiKey) = {}
        THEN NoRow
        ELSE CHOOSE r \in matchingKeys(rows,
                    Substring(apiKey, 0, firstUnderscore) \o <<"_">>
                    \o Substring(apiKey, firstUnderscore + 1, secondUnderscore),
                    apiKey) : TRUE

\* deleteApiKey(keyId, userId): [ret, rows]
deleteApiKey(rows, keyId, userId) ==
    IF \E r \in rows : r.id = keyId /\ r.user_id = userId
    THEN [ret |-> [kind |-> "return", op |-> "deleteApiKey"],
          rows |-> {r \in rows : ~(r.id = keyId /\ r.user_id = userId)}]
    ELSE [ret |-> Thrown("deleteApiKey",
                         <<"Failed to delete API key: ",
                           "API key not found or access denied">>),
          rows |-> rows]

\* Strings that generateApiKey cannot have returned.
MalformedKeys ==
    {<<"frs">>, <<"frs", "_", "a">>, <<"frs", "_", "_", "a">>,
     <<"frs", "_", "a", "_">>, <<"xyz", "_", "a", "a", "_", "a">>,
     <<"frs", "_", "a", "a", "_", "a", "a">>}

PresentedKeys ==
    {ApiKeyString(keyId, keySecret) :
        keyId \in nanoid(KeyIdLen), keySecret \in nanoid(SecretLen)}
    \cup MalformedKeys

KeysInit ==
    /\ domains = {}
    /\ doToken = FALSE
    /\ doZones = {}
    /\ doRecords = <<>>
    /\ workers = <<>>
    /\ calls = <<>>
    /\ ret = Idle
    /\ req = NoReq
    /\ NoMail

KeysFrame ==
    UNCHANGED <<domains, doToken, doZones, doRecords, workers, emailLogs>>

\* nanoid draws values no stored key was made of.
KeysGenerate ==
    /\ ret = Idle
    /\ \E keyName \in KeyNames, keyId \in nanoid(KeyIdLen),
          keySecret \in nanoid(SecretLen) :
        /\ \A r \in apiKeys :
              ~bcryptCompare(ApiKeyString(keyId, keySecret), r.key_hash)
        /\ LET g == generateApiKey(apiKeys, "u1", 1, keyName, <<"send">>,
                                   keyId, keySecret)
           IN  /\ apiKeys' = g.rows
               /\ ret' = g.ret
               /\ calls' = g.calls
               /\ req' = [op |-> "generateApiKey", keyName |-> keyName,
                          before |-> apiKeys]
    /\ KeysFrame

KeysVerify ==
    /\ ret = Idle
    /\ \E apiKey \in PresentedKeys :
        /\ ret' = [kind |-> "return", op |-> "verifyApiKey",
                   val |-> verifyApiKey(apiKeys, apiKey)]
        /\ req' = [op |-> "verifyApiKey", apiKey |-> apiKey, before |-> apiKeys]
    /\ UNCHANGED <<apiKeys, calls>>
    /\ KeysFrame

KeysDelete ==
    /\ ret = Idle
    /\ \E keyId \in {r.id : r \in apiKeys} :
        LET x == deleteApiKey(apiKeys, keyId, "u1")
        IN  /\ apiKeys' = x.rows
            /\ ret' = x.ret
            /\ req' = [op |-> "deleteApiKey", keyId |-> keyId,
                       before |-> apiKeys]
    /\ UNCHANGED calls
    /\ KeysFrame

KeysRespond ==
    /\ ret # Idle
    /\ ret' = Idle
    /\ calls' = <<>>
    /\ req' = NoReq
    /\ UNCHANGED apiKeys
    /\ KeysFrame

KeysNext == KeysGenerate \/ KeysVerify \/ KeysDelete \/ KeysRespond

SpecKeys == KeysInit /\ [][KeysNext]_vars

\* C14: verifyApiKey returns the stored row of every key generateApiKey
\* returned, for as long as the row exists, and null for every string that
\* is the key of no stored row.
C14_ApiKeyRoundTrip ==
    (ret # Idle /\ req.op = "verifyApiKey") =>
        LET stored == {r \in apiKeys : bcryptCompare(req.apiKey, r.key_hash)}
        IN  IF stored = {} THEN ret.val = NoRow ELSE ret.val \in stored

(***************************************************************************)
(* The mail path: POST /api/api-keys, POST /api/emails, deleteDomain and   *)
(* checkDomainVerification over the tables domains, api_keys and           *)
(* email_logs.  Each request runs to its response in one step.             *)
(***************************************************************************)
MaxEmailLogs == 1

DomC == <<"b", ".", "a">>

\* A row as addDomain inserts it.
InsertedRow(id, userId, domainName) ==
    [id |-> id, user_id |-> userId, domain |-> domainName, status |-> "pending",
     ses_configuration_set |-> configSetName(domainName),
     dns_records |-> generateDNSRecords(domainName, <<"t", "1">>, <<>>),
     verification_token |-> <<"t", "1">>]

\* The contrasting behaviour, deleteDomain without the ownership test.
deleteDeniedNever(domain, userId) == FALSE

\* if (!domain || domain.user_id !== userId)  (domains.ts line 476)
deleteDenied(domain, userId) == domain = NoRow \/ domain.user_id # userId

\* deleteDomain(domainId, userId): [ret, domains, apiKeys, emailLogs].  The
\* two DELETEs are separate statements; rows of api_keys and email_logs that
\* reference a deleted domain go with it (ON DELETE CASCADE).
deleteDomain(rows, keyRows, logs, domainId, userId) ==
    IF deleteDenied(getDomainById(rows, domainId), userId)
    THEN [ret |-> Thrown("deleteDomain", <<"Domain not found or unauthorized">>),
          domains |-> rows, apiKeys |-> keyRows, emailLogs |-> logs]
    ELSE IF ~\E r \in rows : r.id = domainId /\ r.user_id = userId
    THEN \* rowCount === 0, after the keys are gone
         [ret |-> Thrown("deleteDomain",
                         <<"Failed to delete domain: ",
                           "Domain not found or unauthorized">>),
          domains |-> rows,
          apiKeys |-> {k \in keyRows : k.domain_id # domainId},
          emailLogs |-> logs]
    ELSE [ret |-> [kind |-> "return", op |-> "deleteDomain"],
          domains |-> {r \in rows : r.id # domainId},
          apiKeys |-> {k \in keyRows : k.domain_id # domainId},
          emailLogs |-> SelectSeq(logs, LAMBDA l : l.domain_id # domainId)]

\* z.string().email(): one "@" between a local part and a dotted domain.
isEmail(from) ==
    /\ Len(Split(from, "@")) = 2
    /\ Split(from, "@")[1] # <<>>
    /\ Includes(Split(from, "@")[2], <<".">>)

Http(status, error) == [kind |-> "response", op |-> "POST /api/emails",
                        status |-> status, error |-> error]

\* The contrasting behaviour, a route without the test of domain.status.
domainNotVerifiedNever(domain) == FALSE

\* if (domain.status !== "verified")  (POST /api/emails, line 98)
domainNotVerified(domain) == domain.status # "verified"

\* Lines 142-192 of POST /api/emails: sendEmail, the email_logs row, the
\* response.  sesOk is whether SES accepts the message.
sendAndLog(logs, apiKey, domain, from, sesOk) ==
    IF ~sesOk
    THEN [ret |-> Http(500, <<"Internal server error">>), emailLogs |-> logs,
          calls |-> <<Call("ses:sendEmail", FALSE)>>]
    ELSE [ret |-> Http(200, <<>>),
          emailLogs |-> Append(logs,
              [api_key_id |-> apiKey.id, domain_id |-> domain.id,
               from_email |-> from, status |-> "sent",
               ses_message_id |-> <<"m">>]),
          calls |-> <<Call("ses:sendEmail", TRUE), Call("db:insertEmailLog", TRUE)>>]

\* Lines 90-123 of POST /api/emails, given the verified key.
sendGate(rows, logs, apiKey, domain, from, sesOk) ==
    IF domain = NoRow
    THEN [ret |-> Http(404, <<"Domain not found">>), emailLogs |-> logs,
          calls |-> <<>>]
    ELSE IF domainNotVerified(domain)
    THEN [ret |-> Http(400, <<"Domain not verified">>), emailLogs |-> logs,
          calls |-> <<>>]
    ELSE IF Split(from, "@")[2] # domain.domain
    THEN [ret |-> Http(400, <<"From email must be from domain: ">>
                            \o domain.domain),
          emailLogs |-> logs, calls |-> <<>>]
    ELSE IF ~\E j \in 1..Len(apiKey.permissions) : apiKey.permissions[j] = "send"
    THEN [ret |-> Http(403, <<"API key does not have send permission">>),
          emailLogs |-> logs, calls |-> <<>>]
    ELSE sendAndLog(logs, apiKey, domain, from, sesOk)

\* Lines 65-88 of POST /api/emails, given the bearer value.
sendAuthorized(rows, keyRows, logs, apiKey, from, bodyValid, sesOk) ==
    IF apiKey = NoRow
    THEN [ret |-> Http(401, <<"Invalid API key">>), emailLogs |-> logs,
          calls |-> <<>>]
    ELSE IF ~(bodyValid /\ isEmail(from))
    THEN [ret |-> Http(400, <<"Invalid request data">>), emailLogs |-> logs,
          calls |-> <<>>]
    ELSE sendGate(rows, logs, apiKey, getDomainById(rows, apiKey.domain_id),
                  from, sesOk)

\* POST /api/emails: [ret, emailLogs, calls].  authHeader is NULL when the
\* header is absent, else the scheme followed by the value.
postEmails(rows, keyRows, logs, authHeader, from, bodyValid, sesOk) ==
    IF authHeader = NULL \/ ~StartsWith(authHeader, <<"Bearer ">>)
    THEN [ret |-> Http(401, <<"Missing authorization header">>),
          emailLogs |-> logs, calls |-> <<>>]
    ELSE sendAuthorized(rows, keyRows, logs,
                        verifyApiKey(keyRows, Tail(authHeader)),
                        from, bodyValid, sesOk)

MailKeyIds == {<<"a", "a">>, <<"-", "a">>}
MailKeys == {ApiKeyString(keyId, <<"a">>) : keyId \in MailKeyIds}
MailHeaders ==
    {NULL}
    \cup {<<"Bearer ">> \o k : k \in MailKeys \cup {<<"frs", "_", "a">>}}
    \cup {<<"Basic ">> \o k : k \in MailKeys}
MailFroms == {<<"x", "@">> \o DomA, <<"x", "@">> \o DomC, <<"x">>}
MailPermissions == {<<"send">>, <<"receive">>}

MailInit ==
    /\ domains = {InsertedRow(1, "u1", DomA), InsertedRow(2, "u2", DomC)}
    /\ doToken = FALSE
    /\ doZones = {}
    /\ doRecords = <<>>
    /\ workers = <<>>
    /\ calls = <<>>
    /\ ret = Idle
    /\ req = NoReq
    /\ NoMail

MailStatic == UNCHANGED <<doToken, doZones, doRecords, workers>>

MailBefore == [domains |-> domains, apiKeys |-> apiKeys, emailLogs |-> emailLogs]

\* POST /api/api-keys: the domain is the user's and verified, then
\* generateApiKey.
MailCreateKey ==
    /\ ret = Idle
    /\ \E userId \in Users, domainId \in {r.id : r \in domains},
          permissions \in MailPermissions, keyId \in MailKeyIds :
        /\ getDomainById(domains, domainId).user_id = userId
        /\ getDomainById(domains, domainId).status = "verified"
        /\ \A r \in apiKeys :
              ~bcryptCompare(ApiKeyString(keyId, <<"a">>), r.key_hash)
        /\ LET g == generateApiKey(apiKeys, userId, domainId, "n1", permissions,
                                   keyId, <<"a">>)
           IN  /\ apiKeys' = g.rows
               /\ ret' = g.ret
               /\ calls' = g.calls
               /\ req' = [op |-> "generateApiKey", before |-> MailBefore]
    /\ UNCHANGED <<domains, emailLogs>>
    /\ MailStatic

MailSend ==
    /\ ret = Idle
    /\ Len(emailLogs) < MaxEmailLogs
    /\ \E authHeader \in MailHeaders, from \in MailFroms,
          bodyValid \in BOOLEAN, sesOk \in BOOLEAN :
        LET p == postEmails(domains, apiKeys, emailLogs, authHeader, from,
                            bodyValid, sesOk)
        IN  /\ emailLogs' = p.emailLogs
            /\ ret' = p.ret
            /\ calls' = p.calls
            /\ req' = [op |-> "POST /api/emails", authHeader |-> authHeader,
                       from |-> from, bodyValid |-> bodyValid,
                       before |-> MailBefore]
    /\ UNCHANGED <<domains, apiKeys>>
    /\ MailStatic

MailDeleteDomain ==
    /\ ret = Idle
    /\ \E domainId \in 1..2, userId \in Users :
        LET x == deleteDomain(domains, apiKeys, emailLogs, domainId, userId)
        IN  /\ domains' = x.domains
            /\ apiKeys' = x.apiKeys
            /\ emailLogs' = x.emailLogs
            /\ ret' = x.ret
            /\ req' = [op |-> "deleteDomain", domainId |-> domainId,
                       userId |-> userId, before |-> MailBefore]
    /\ UNCHANGED calls
    /\ MailStatic

MailCheckVerification ==
    /\ ret = Idle
    /\ \E domainId \in {r.id : r \in domains},
          answer \in {Ok("Success"), Ok("Failed"), Ok("Pending")} :
        LET c == checkDomainVerification(domains, domainId, answer)
        IN  /\ domains' = c.rows
            /\ ret' = c.ret
            /\ calls' = c.calls
            /\ req' = [op |-> "checkDomainVerification", domainId |-> domainId,
                       before |-> MailBefore]
    /\ UNCHANGED <<apiKeys, emailLogs>>
    /\ MailStatic

MailRespond ==
    /\ ret # Idle
    /\ ret' = Idle
    /\ calls' = <<>>
    /\ req' = NoReq
    /\ UNCHANGED <<domains, apiKeys, emailLogs>>
    /\ MailStatic

MailNext ==
    \/ MailCreateKey
    \/ MailSend
    \/ MailDeleteDomain
    \/ MailCheckVerification
    \/ MailRespond

SpecMail == MailInit /\ [][MailNext]_vars

InSend == ret # Idle /\ req.op = "POST /api/emails"

\* The conditions of the send gate on the tables as the request found them.
GateOpen ==
    /\ req.authHeader # NULL
    /\ Len(req.authHeader) >= 1 /\ req.authHeader[1] = "Bearer "
    /\ \E k \in req.before.apiKeys :
          /\ bcryptCompare(Tail(req.authHeader), k.key_hash)
          /\ \E j \in 1..Len(k.permissions) : k.permissions[j] = "send"
          /\ \E d \in req.before.domains :
                /\ d.id = k.domain_id
                /\ d.status = "verified"
                /\ req.from = <<"x", "@">> \o d.domain

\* C15: POST /api/emails calls sendEmail only when the bearer key verifies,
\* its domain exists and is verified, the from address is of that domain and
\* the key may send; otherwise SES is not called and no email_logs row is
\* written.
C15_SendGate ==
    InSend =>
        /\ MadeIn(calls, "ses:sendEmail") => GateOpen
        /\ ~GateOpen =>
              /\ ~MadeIn(calls, "ses:sendEmail")
              /\ emailLogs = req.before.emailLogs

\* A key made while its domain was verified is refused once the domain's
\* status is failed.
C15_Witness ==
    /\ InSend
    /\ ret.status = 400 /\ ret.error = <<"Domain not verified">>
    /\ \E d \in domains : d.status = "failed"
    /\ ~MadeIn(calls, "ses:sendEmail")

InDelete == ret # Idle /\ req.op = "deleteDomain"

\* C16: a deleteDomain that succeeds for the owner leaves neither the row
\* nor any API key of the domain; a deleteDomain by another user throws and
\* leaves the row and its API keys as they were.
C16_DeleteCascades ==
    InDelete =>
        LET d == getDomainById(req.before.domains, req.domainId)
        IN  /\ (d # NoRow /\ d.user_id = req.userId) =>
                  /\ ret.kind = "return"
                  /\ getDomainById(domains, req.domainId) = NoRow
                  /\ \A k \in apiKeys : k.domain_id # req.domainId
            /\ (d # NoRow /\ d.user_id # req.userId) =>
                  /\ ret.kind = "throw"
                  /\ d \in domains
                  /\ {k \in apiKeys : k.domain_id = req.domainId}
                       = {k \in req.before.apiKeys : k.domain_id = req.domainId}

\* Both cases on a domain that has an API key.
C16_Witness ==
    /\ InDelete
    /\ ret.kind = "return"
    /\ \E k \in req.before.apiKeys : k.domain_id = req.domainId
    /\ \A k \in apiKeys : k.domain_id # req.domainId

(***************************************************************************)
(* retryRequest (registrar adapter, lines 22-58): one invocation, one      *)
(* attempt or one backoff per step.  The request function answers each     *)
(* attempt with a result or rejects with an error of its own; every        *)
(* attempt and every backoff timer completes.                              *)
(***************************************************************************)
maxRetries == 3

\* The three callers: getDomains, getDomainRecords, createDNSRecord.
RequestFns == {"do:getDomains", "do:getDomainRecords", "do:createDNSRecord"}

\* error.response?.status of a rejection; "none" is an error without a
\* response.
ErrorStatuses == {"429", "404", "500", "none"}

NoError == [status |-> "undefined", n |-> 0]

\* The rejection of attempt n.
RequestError(status, n) == [status |-> status, n |-> n + 1]

Attempt(fn, n, ok, error) == [call |-> fn, ok |-> ok, n |-> n + 1, error |-> error]

\* The contrasting behaviour, a loop that keeps the first error.
lastErrorKeepFirst(lastError, error) ==
    IF lastError = NoError THEN error ELSE lastError

\* lastError = error  (line 33)
lastErrorAfter(lastError, error) == error

\* if (axiosError.response?.status !== 429 && attempt === 0)  (line 37)
rethrowsAtOnce(error, attempt) == error.status # "429" /\ attempt = 0

\* The catch block of attempt w.attempt, lines 32-54: the invocation after
\* it and what it has thrown, if anything.
retryCatch(w, error) ==
    IF rethrowsAtOnce(error, w.attempt)
    THEN [w |-> [w EXCEPT !.pc = "done",
                          !.lastError = lastErrorAfter(w.lastError, error)],
          ret |-> [kind |-> "throw", error |-> error]]
    ELSE IF w.attempt = maxRetries
    THEN [w |-> [w EXCEPT !.pc = "done",
                          !.lastError = lastErrorAfter(w.lastError, error)],
          ret |-> [kind |-> "throw",
                   error |-> lastErrorAfter(w.lastError, error)]]
    ELSE [w |-> [w EXCEPT !.pc = "delay",
                          !.lastError = lastErrorAfter(w.lastError, error)],
          ret |-> Idle]

\* The end of a backoff: attempt++ and the loop test of line 30.
retryAdvance(w) ==
    IF w.attempt + 1 <= maxRetries
    THEN [w |-> [w EXCEPT !.pc = "try", !.attempt = w.attempt + 1], ret |-> Idle]
    ELSE [w |-> [w EXCEPT !.pc = "done", !.attempt = w.attempt + 1],
          ret |-> [kind |-> "throw", error |-> w.lastError]]

RetryInit ==
    /\ \E fn \in RequestFns :
          /\ req = [op |-> fn]
          /\ workers = <<[pc |-> "try", attempt |-> 0, lastError |-> NoError]>>
    /\ calls = <<>>
    /\ ret = Idle
    /\ domains = {}
    /\ doToken = TRUE
    /\ doZones = {}
    /\ doRecords = <<>>
    /\ NoMail

RetryFrame == UNCHANGED <<domains, doToken, doZones, doRecords, req, apiKeys, emailLogs>>

\* return await requestFn(), resolving.
RetryAttemptOk ==
    /\ workers[1].pc = "try"
    /\ calls' = Append(calls, Attempt(req.op, workers[1].attempt, TRUE, NoError))
    /\ workers' = <<[workers[1] EXCEPT !.pc = "done"]>>
    /\ ret' = [kind |-> "return", n |-> workers[1].attempt + 1]
    /\ RetryFrame

\* return await requestFn(), rejecting, and the catch block.
RetryAttemptFails ==
    /\ workers[1].pc = "try"
    /\ \E status \in ErrorStatuses :
        LET error == RequestError(status, workers[1].attempt)
        IN  /\ calls' = Append(calls, Attempt(req.op, workers[1].attempt, FALSE, error))
            /\ workers' = <<retryCatch(workers[1], error).w>>
            /\ ret' = retryCatch(workers[1], error).ret
    /\ RetryFrame

\* The backoff timer of lines 47-53 fires.
RetryDelay ==
    /\ workers[1].pc = "delay"
    /\ workers' = <<retryAdvance(workers[1]).w>>
    /\ ret' = retryAdvance(workers[1]).ret
    /\ UNCHANGED calls
    /\ RetryFrame

RetryNext ==
    \/ RetryAttemptOk
    \/ RetryAttemptFails
    \/ RetryDelay

SpecRetry == RetryInit /\ [][RetryNext]_vars

LiveSpecRetry == SpecRetry /\ WF_vars(RetryNext)

RetryDone == workers[1].pc = "done"

AllAttemptsFailed == \A i \in 1..Len(calls) : ~calls[i].ok

\* At most maxRetries + 1 attempts; a result is that of the first
\* successful attempt, which is the last one made; a thrown error is that of
\* the last attempt; when every attempt was answered 429 there were exactly
\* maxRetries + 1 of them.
RetryOutcome ==
    /\ Len(calls) <= maxRetries + 1
    /\ RetryDone =>
          /\ Len(calls) >= 1
          /\ ret.kind = "return" =>
                /\ calls[Len(calls)].ok
                /\ ret.n = Len(calls)
                /\ \A i \in 1..(Len(calls) - 1) : ~calls[i].ok
          /\ ret.kind = "throw" =>
                /\ AllAttemptsFailed
                /\ ret.error = calls[Len(calls)].error
          /\ (\A i \in 1..Len(calls) : calls[i].error.status = "429")
                => Len(calls) = maxRetries + 1

\* C18: retryRequest invokes the request at most maxRetries + 1 = 4 times
\* and always terminates, returning the result of the first successful
\* attempt or throwing the error of the last attempt; when every attempt
\* fails with 429 it makes exactly 4 attempts.
C18_BoundedRetry == []RetryOutcome /\ <>RetryDone

\* Four attempts, each answered 429, and the fourth error thrown.
C18_Witness ==
    /\ RetryDone
    /\ Len(calls) = 4
    /\ \A i \in 1..4 : calls[i].error.status = "429"
    /\ ret.kind = "throw" /\ ret.error.n = 4

\* C19: an attempt that fails with anything other than 429 is never
\* followed by another attempt, on the first attempt or after earlier 429
\* responses.
C19_OnlyRateLimitRetried ==
    \A i \in 1..(Len(calls) - 1) : calls[i].error.status = "429"

(***************************************************************************)
(* setupDomainDNS (registrar adapter, lines 252-352) against a zone that    *)
(* already holds records of other origin, one call per step.               *)
(***************************************************************************)
MaxListed == 2

\* A record as the registrar lists it.
Held(type, name, data, priority) ==
    [id |-> 0, type |-> type, name |-> name, data |-> data, ttl |-> 300,
     priority |-> priority]

\* Records a zone may hold before a call: a CNAME at a signing name with
\* another target, a TXT at a signing name, the MX and the ownership TXT as
\* createDNSRecord posts them, a TXT at the root with another value.
HeldRecords ==
    {Held("CNAME", <<"k", "1", ".", "_domainkey">>, <<"x", ".">>, <<>>),
     Held("TXT", <<"k", "1", ".", "_domainkey">>, <<"y">>, <<>>),
     Held("MX", <<"@">>,
          WithTrailingDot(Join(Tail(Split(fixedDNSRecords(DomA, <<"t", "1">>)[2].value, " ")), " ")),
          <<10>>),
     Held("TXT", <<"_amazonses">>, <<"t", "1">>, <<>>),
     Held("TXT", <<"@">>, <<"z">>, <<>>)}

\* The registrar numbers the records of a zone.
Numbered(listing) == [i \in 1..Len(listing) |-> [listing[i] EXCEPT !.id = i]]

ReconcileListings == {Numbered(l) : l \in SeqsUpTo(HeldRecords, MaxListed)}

ReconcileAnswers ==
    {DoAllOk, [DoAllOk EXCEPT !.createFail = {2}],
     [DoAllOk EXCEPT !.createFail = {1, 5}], [DoAllOk EXCEPT !.records = "fail"]}

ReconcileInit ==
    /\ domains = {}
    /\ doToken = TRUE
    /\ doZones = {DomA}
    /\ \E l \in ReconcileListings : doRecords = [z \in {DomA} |-> l]
    /\ workers = <<>>
    /\ calls = <<>>
    /\ ret = Idle
    /\ req = NoReq
    /\ NoMail

ReconcileFrame == UNCHANGED <<domains, doToken, doZones, workers, apiKeys, emailLogs>>

\* One call of setupDomainDNS for the records planned from a verification
\* token and the signing tokens.
ReconcileRun ==
    /\ ret = Idle
    /\ req = NoReq
    /\ \E dkimTokens \in DkimLists, e \in ReconcileAnswers :
        LET dnsRecords == generateDNSRecords(DomA, <<"t", "1">>, dkimTokens)
            s == setupDomainDNS(Registrar(DomA), DomA, dnsRecords, e)
        IN  /\ doRecords' = [doRecords EXCEPT ![DomA] = s.records]
            /\ calls' = s.calls
            /\ ret' = IF s.threw THEN Thrown("setupDomainDNS", s.message)
                      ELSE [kind |-> "return", op |-> "setupDomainDNS",
                            created |-> s.created]
            /\ req' = [op |-> "setupDomainDNS", domain |-> DomA,
                       dnsRecords |-> dnsRecords, e |-> e,
                       before |-> doRecords[DomA]]
    /\ ReconcileFrame

\* The caller takes the result; the zone is open to the next call.
ReconcileRespond ==
    /\ ret # Idle
    /\ ret' = Idle
    /\ calls' = <<>>
    /\ req' = NoReq
    /\ UNCHANGED doRecords
    /\ ReconcileFrame

ReconcileNext ==
    \/ ReconcileRun
    \/ ReconcileRespond

SpecReconcile == ReconcileInit /\ [][ReconcileNext]_vars

InReconcile == ret # Idle /\ req.op = "setupDomainDNS"

ReconcileReturned == InReconcile /\ ret.kind = "return"

\* createDNSRecord was called for planned record i; it succeeded.
AttemptedFor(i) ==
    \E j \in 1..Len(calls) :
        calls[j].call = "do:createDNSRecord" /\ calls[j].i = i
CreatedFor(i) ==
    \E j \in 1..Len(calls) :
        calls[j].call = "do:createDNSRecord" /\ calls[j].i = i /\ calls[j].ok

\* The listing holds the planned record: for a CNAME a record of the same
\* type and root-relative name, for another record one of the same type,
\* name and value, the value of a held MX being its priority and hostname.
HoldsPlanned(domain, record, listing) ==
    \E k \in 1..Len(listing) :
        /\ listing[k].type = record.type
        /\ listing[k].name = RecordName(domain, record)
        /\ record.type # "CNAME" =>
              /\ listing[k].data = Payload(domain, record).data
              /\ listing[k].priority = Payload(domain, record).priority

\* C23: setupDomainDNS treats a planned CNAME as present exactly when the
\* registrar holds a record of the same type and root-relative name, and a
\* planned record of another type exactly when it holds one of the same
\* type, name and value; createDNSRecord is called for a record if and only
\* if it is not present in this sense.
C23_StructuralComparison ==
    ReconcileReturned =>
        \A i \in 1..Len(req.dnsRecords) :
            AttemptedFor(i) <=> ~HoldsPlanned(req.domain, req.dnsRecords[i], req.before)

\* The zone held no record at the name of planned record i.
NothingHeldAt(i) ==
    \A k \in 1..Len(req.before) :
        req.before[k].name # RecordName(req.domain, req.dnsRecords[i])

\* The returned list holds the record posted for planned record i.
ReturnedFor(i) ==
    \E k \in 1..Len(ret.created) :
        /\ ret.created[k].type = req.dnsRecords[i].type
        /\ ret.created[k].name = RecordName(req.domain, req.dnsRecords[i])

\* C25: when createDNSRecord fails for a planned record during
\* setupDomainDNS, every planned record that is missing is still attempted,
\* no exception reaches the caller, and the returned list holds exactly the
\* records whose creation succeeded in this run.
C25_FailureIsolation ==
    (InReconcile /\ FailedIn(calls, "do:createDNSRecord")) =>
        /\ ret.kind = "return"
        /\ \A i \in 1..Len(req.dnsRecords) :
              /\ NothingHeldAt(i) => AttemptedFor(i)
              /\ CreatedFor(i) <=> ReturnedFor(i)
        /\ Len(ret.created)
             = Cardinality({i \in 1..Len(req.dnsRecords) : CreatedFor(i)})

\* The second planned record failed, a later one was created and returned.
C25_Witness ==
    /\ ReconcileReturned
    /\ AttemptedFor(2) /\ ~CreatedFor(2)
    /\ \E i \in 3..Len(req.dnsRecords) : CreatedFor(i) /\ ReturnedFor(i)

\* C28: setupDomainDNS never updates or deletes a record that is already at
\* the registrar: after any reconciliation every record held before is
\* still held with unchanged type, name and data, a CNAME at a planned name
\* with another target included.
C28_ReconciliationOnlyAdds ==
    InReconcile =>
        /\ Len(doRecords[req.domain]) >= Len(req.before)
        /\ \A k \in 1..Len(req.before) : doRecords[req.domain][k] = req.before[k]

\* A run that planned the signing record k1 and created records while the
\* zone held a CNAME of that name with the target x.
C28_Witness ==
    /\ ReconcileReturned
    /\ Len(req.dnsRecords) = 5
    /\ Len(ret.created) >= 1
    /\ \E k \in 1..Len(req.before) :
          /\ req.before[k].type = "CNAME" /\ req.before[k].data = <<"x", ".">>
          /\ req.before[k].name = RecordName(req.domain, req.dnsRecords[5])

(***************************************************************************)
(* refreshAllDomainStatuses (lib/domains.ts, lines 502-523) over tables of *)
(* several rows, one sweep per step.                                       *)
(***************************************************************************)
MaxSweepRows == 3

\* The row of the id-th domain name, as addDomain inserted it and
\* checkDomainVerification left it.
SweepRow(id, status) ==
    [InsertedRow(id, "u1", [i \in 1..id |-> "a"] \o <<".", "b">>)
        EXCEPT !.status = status]

SweepTables ==
    {{SweepRow(id, st[id]) : id \in {i \in 1..MaxSweepRows : st[i] # "none"}} :
        st \in [1..MaxSweepRows -> {"none", "pending", "verified", "failed"}]}

SweepAnswers == {Ok("Success"), Ok("Failed"), Ok("Pending"), Err(ErrDenied)}

SweepInit ==
    /\ domains \in SweepTables
    /\ doToken = FALSE
    /\ doZones = {}
    /\ doRecords = <<>>
    /\ workers = <<>>
    /\ calls = <<>>
    /\ ret = Idle
    /\ req = NoReq
    /\ NoMail

SweepRun ==
    /\ ret = Idle
    /\ \E answers \in [{r.id : r \in pendingRows(domains)} -> SweepAnswers] :
        LET c == refreshAllDomainStatuses(domains, answers)
        IN  /\ domains' = c.rows
            /\ ret' = c.ret
            /\ calls' = c.calls
            /\ req' = [op |-> "refreshAllDomainStatuses", before |-> domains]
    /\ UNCHANGED <<doToken, doZones, doRecords, workers>>
    /\ MailFrame

SweepNext ==
    \/ SweepRun
    \/ Respond

SpecSweep == SweepInit /\ [][SweepNext]_vars

\* The checkDomainVerification calls of the sweep for domain id.
ChecksOf(id) ==
    {j \in 1..Len(calls) :
        calls[j].call = "checkDomainVerification" /\ calls[j].id = id}

\* C26: refreshAllDomainStatuses invokes checkDomainVerification once for
\* each domain that is pending when the sweep starts and for no other
\* domain; a failure while checking one domain does not keep the remaining
\* pending domains from being checked, and the sweep returns without
\* throwing.
C26_SweepIsolation ==
    InRefresh =>
        /\ ret.kind = "return"
        /\ \A r \in req.before :
              Cardinality(ChecksOf(r.id))
                = IF r.status = "pending" THEN 1 ELSE 0

\* Two pending domains: the status query of the first check failed, the
\* second domain was checked and became verified.
C26_Witness ==
    /\ InRefresh
    /\ Cardinality({r \in req.before : r.status = "pending"}) = 2
    /\ calls[1].call = "checkDomainVerification"
    /\ calls[2].call = "ses:getDomainVerificationStatus" /\ ~calls[2].ok
    /\ \E r \in domains :
          /\ r.status = "verified"
          /\ r.id # calls[1].id
          /\ getDomainById(req.before, r.id).status = "pending"

(***************************************************************************)
(* lib/api-keys.ts: maskApiKey applied to the keys generateApiKey makes,   *)
(* with key ids of KeyIdLen and secrets of MaskSecretLen characters.       *)
(***************************************************************************)
MaskSecretLen == 2

\* "*".repeat(n)
Stars(n) == [i \in 1..n |-> "*"]

\* maskApiKey(apiKey), lines 206-211.
maskApiKey(apiKey) ==
    IF Len(Split(apiKey, "_")) # 3 THEN apiKey
    ELSE Split(apiKey, "_")[1] \o <<"_">> \o Split(apiKey, "_")[2] \o <<"_">>
         \o Stars(Len(Split(apiKey, "_")[3]))

MaskInit ==
    /\ \E keyId \in nanoid(KeyIdLen), keySecret \in nanoid(MaskSecretLen) :
          req = [op |-> "maskApiKey", keyId |-> keyId, keySecret |-> keySecret,
                 apiKey |-> ApiKeyString(keyId, keySecret)]
    /\ ret = Idle
    /\ calls = <<>>
    /\ domains = {}
    /\ doToken = FALSE
    /\ doZones = {}
    /\ doRecords = <<>>
    /\ workers = <<>>
    /\ NoMail

MaskApply ==
    /\ ret = Idle
    /\ ret' = [kind |-> "return", op |-> "maskApiKey",
               val |-> maskApiKey(req.apiKey)]
    /\ UNCHANGED <<domains, doToken, doZones, doRecords, workers, calls, req, apiKeys, emailLogs>>

MaskNext == MaskApply

SpecMask == MaskInit /\ [][MaskNext]_vars

\* C30: for every key produced by generateApiKey, maskApiKey returns a
\* string of the same length in which every character of the secret part
\* is replaced by "*" and the rest is kept, so that the result does not
\* contain the secret.
C30_MaskHidesSecret ==
    (ret # Idle /\ req.op = "maskApiKey") =>
        /\ Len(ret.val) = Len(req.apiKey)
        /\ \A p \in 1..Len(req.apiKey) :
              IF p > Len(req.apiKey) - Len(req.keySecret)
              THEN ret.val[p] = "*"
              ELSE ret.val[p] = req.apiKey[p]
====
